---- MODULE Spec2Model ----
(***************************************************************************)
(* KTBR: job admission, wait queue, cooldown and cancellation coordinator  *)
(* (handlers/photo.py, handlers/video.py, handlers/commands.py,            *)
(* handlers/queue_worker.py, utils/queue_manager.py, utils/decorators.py)  *)
(* and the video pipelines of processors/face_blur.py and                  *)
(* processors/voice_anon.py, and the face tracker of utils/tracking.py.    *)
(*                                                                         *)
(* The handlers are asyncio coroutines: one action of the model is the     *)
(* code a coroutine runs between two awaits.  The pipelines run in their   *)
(* own thread (asyncio.to_thread), so their statements that read the       *)
(* cancellation flag are separate steps.                                   *)
(***************************************************************************)
EXTENDS Integers, Sequences, FiniteSets, TLC

\* ------------------------------------------------------------------ bounds
NumUsers == 4
MaxPerUser == 1
MaxSubmits == 1
MaxFrames == 1
MaxTime == 30
MaxUpdates == 1
MaxTracks == 2

\* ------------------------------------------------------- program constants
MAX_CONCURRENT_JOBS == 2
COOLDOWN_SECONDS == 30
MAX_IMAGE_SIZE_MB == 10
MAX_VIDEO_SIZE_MB == 100
MAX_VIDEO_DURATION_SECONDS == 30
ESTIMATE_VIDEO_SEC_PER_MB_x2 == 5     \* 2.5, in half seconds per MB
max_frames_without_detection == 20
iou_threshold_pct == 15             \* 0.15
distance_threshold_ratio_x2 == 3    \* 1.5

Users == 1..NumUsers
Tids == 1..(NumUsers * MaxPerUser)
ImageSizes == {4, 12}
VideoSizes == {4, 104}
Durations == {10, 40}

VARIABLES
    active_tasks,       \* config.active_tasks: user_id -> job record
    processing_queue,   \* config.processing_queue: list of entries
    user_cooldowns,     \* config.user_cooldowns: user_id -> expiry
    user_modes,         \* config.user_modes: user_id -> mode
    pending_voice,      \* context.user_data['pending_voice_video'], per user
    now,                \* time.time()
    tasks,              \* the coroutines in flight and their locals
    temp_dirs,          \* the temporary workspaces on disk: task -> files
    submits,            \* number of updates received so far
    users_seen,         \* users are numbered in the order they first appear
    delivered,          \* user_id -> number of processed videos sent to the user
    FaceTrack_next_id,  \* the class attribute FaceTrack._next_id
    face_tracker,       \* pipeline thread -> the tracks of its FaceTracker
    tracker_updates     \* number of FaceTracker.update calls so far

vars == <<active_tasks, processing_queue, user_cooldowns, user_modes,
          pending_voice, now, tasks, temp_dirs, submits, users_seen, delivered,
          FaceTrack_next_id, face_tracker, tracker_updates>>

\* the state of utils/tracking.py
tracking == <<FaceTrack_next_id, face_tracker, tracker_updates>>

\* --------------------------------------------------------- dict helpers
DictDel(d, k) == [x \in (DOMAIN d) \ {k} |-> d[x]]
DictSet(d, k, v) == [x \in (DOMAIN d) \cup {k} |-> IF x = k THEN v ELSE d[x]]

\* ------------------------------------------------- utils/queue_manager.py
get_active_job_count(at) == Cardinality(DOMAIN at)

is_server_busy(at) == get_active_job_count(at) >= MAX_CONCURRENT_JOBS

get_queue_length(q) == Len(q)

get_queue_position(q, u) ==
    IF \E i \in 1..Len(q) : q[i].user_id = u
    THEN CHOOSE i \in 1..Len(q) :
            /\ q[i].user_id = u
            /\ \A j \in 1..(i - 1) : q[j].user_id # u
    ELSE 0

is_in_queue(q, u) == get_queue_position(q, u) > 0

NewEntry(u, size, ftype, msg) ==
    [user_id |-> u, file_size_mb |-> size, file_type |-> ftype,
     queue_msg_id |-> msg]

\* the entry that add_to_queue leaves for a user who is already queued:
\* the payload is replaced, the message id only when one is given
RefreshEntry(e, size, ftype, msg) ==
    [e EXCEPT !.file_size_mb = size, !.file_type = ftype,
              !.queue_msg_id = IF msg THEN TRUE ELSE @]

\* an add_to_queue without the search for an existing entry
add_to_queue_appends(q, u, size, ftype, msg) ==
    Append(q, NewEntry(u, size, ftype, msg))

\* an add_to_queue that moves the entry of a queued user to the end
add_to_queue_requeues(q, u, size, ftype, msg) ==
    IF is_in_queue(q, u)
    THEN LET p == get_queue_position(q, u)
         IN Append(SubSeq(q, 1, p - 1) \o SubSeq(q, p + 1, Len(q)),
                   RefreshEntry(q[p], size, ftype, msg))
    ELSE Append(q, NewEntry(u, size, ftype, msg))

add_to_queue(q, u, size, ftype, msg) ==
    IF is_in_queue(q, u)
    THEN LET p == get_queue_position(q, u)
         IN [q EXCEPT ![p] = RefreshEntry(q[p], size, ftype, msg)]
    ELSE Append(q, NewEntry(u, size, ftype, msg))

\* the position add_to_queue returns
add_to_queue_position(q, u) ==
    IF is_in_queue(q, u) THEN get_queue_position(q, u) ELSE Len(q) + 1

\* a remove_from_queue that takes the head whoever asked
remove_from_queue_head(q, u) ==
    IF is_in_queue(q, u) THEN Tail(q) ELSE q

remove_from_queue(q, u) ==
    IF is_in_queue(q, u)
    THEN LET p == get_queue_position(q, u)
         IN SubSeq(q, 1, p - 1) \o SubSeq(q, p + 1, Len(q))
    ELSE q

\* the value remove_from_queue returns
remove_from_queue_result(q, u) == is_in_queue(q, u)

get_next_in_queue(q) == IF Len(q) > 0 THEN q[1] ELSE NewEntry(0, 0, "none", FALSE)

\* estimate_wait_time in quarter seconds up to the final int(): the rate
\* is ESTIMATE_VIDEO_SEC_PER_MB_x2 half seconds per MB, and int() of a
\* value that is not negative is the floor
estimate_wait_time_full(at, position, size) ==
    IF position <= 0 THEN 0
    ELSE LET avg_job_time_x2 == size * ESTIMATE_VIDEO_SEC_PER_MB_x2
             current_jobs_time_x4 == get_active_job_count(at) * avg_job_time_x2 * 2
             jobs_ahead == position - 1
             queue_time_x4 == jobs_ahead * avg_job_time_x2 * 2
             total_wait_x4 == current_jobs_time_x4 + queue_time_x4
         IN total_wait_x4 \div 4

estimate_wait_time(at, position, size) ==
    IF position <= 0 THEN 0
    ELSE LET avg_job_time_x2 == size * ESTIMATE_VIDEO_SEC_PER_MB_x2
             current_jobs_time_x4 == get_active_job_count(at) * avg_job_time_x2
             jobs_ahead == position - 1
             queue_time_x4 == jobs_ahead * avg_job_time_x2 * 2
             total_wait_x4 == current_jobs_time_x4 + queue_time_x4
         IN total_wait_x4 \div 4

set_cooldown(cd, u, t) == DictSet(cd, u, t + COOLDOWN_SECONDS)

\* an is_on_cooldown that still answers True at the expiry instant
is_on_cooldown_late(cd, u, t) == u \in DOMAIN cd /\ ~(t > cd[u])

\* is_on_cooldown: the value returned and the map it leaves
is_on_cooldown(cd, u, t) == u \in DOMAIN cd /\ ~(t >= cd[u])

is_on_cooldown_map(cd, u, t) ==
    IF u \in DOMAIN cd /\ t >= cd[u] THEN DictDel(cd, u) ELSE cd

\* a get_cooldown_remaining that sweeps every expired entry out of the map
get_cooldown_remaining_sweeps(cd, u, t) ==
    IF u \in DOMAIN cd /\ cd[u] - t <= 0
    THEN [x \in {y \in DOMAIN cd : cd[y] - t > 0} |-> cd[x]]
    ELSE cd

\* get_cooldown_remaining: the map it leaves
get_cooldown_remaining_map(cd, u, t) ==
    IF u \in DOMAIN cd /\ cd[u] - t <= 0 THEN DictDel(cd, u) ELSE cd

\* get_cooldown_remaining: the value returned
get_cooldown_remaining(cd, u, t) ==
    IF u \in DOMAIN cd /\ cd[u] - t > 0 THEN cd[u] - t ELSE 0

\* clear_cooldown
clear_cooldown(cd, u) == IF u \in DOMAIN cd THEN DictDel(cd, u) ELSE cd


\* ------------------------------------------------- utils/decorators.py
\* a wrapper that passes an update of None on to the handler
require_auth_passes(update) == FALSE

\* require_auth's wrapper reads update.effective_user before anything else;
\* trigger_next_queued_job calls the handlers with update = None
require_auth_raises(update) == update = "None"

\* --------------------------------------------------------- the coroutines
NoEntry == NewEntry(0, 0, "none", FALSE)

Idle == [kind |-> "idle", user |-> 0, pc |-> "-", queued |-> FALSE,
         size |-> 0, cancel_event |-> FALSE, success |-> FALSE,
         was_cancelled |-> FALSE, raised |-> FALSE, frame_count |-> 0,
         idx |-> 0, entry |-> NoEntry, alias |-> FALSE, told |-> <<>>]

\* an update from user u arrives: one more update, and u is either a user
\* seen before or the next new one
Update(u) ==
    /\ submits < MaxSubmits
    /\ submits' = submits + 1
    /\ u <= users_seen + 1
    /\ users_seen' = IF u > users_seen THEN u ELSE users_seen

MinOf(S) == CHOOSE x \in S : \A y \in S : x <= y

\* the coroutines of user u run in the slots u, u + NumUsers, ...
FreeTids(u) == {t \in Tids : t % NumUsers = u % NumUsers
                              /\ tasks[t].kind = "idle"}

\* next_user in notify_next_in_queue is the entry object itself: while it
\* is in the list, add_to_queue's in-place update is seen through it
TasksAfterRemove(ts, q, u) ==
    [t \in Tids |->
        IF ts[t].alias /\ ts[t].entry.user_id = u
        THEN [ts[t] EXCEPT !.alias = FALSE] ELSE ts[t]]

TasksAfterAdd(ts, q, u, size, ftype, msg) ==
    [t \in Tids |->
        IF is_in_queue(q, u) /\ ts[t].alias /\ ts[t].entry.user_id = u
        THEN [ts[t] EXCEPT !.entry = RefreshEntry(@, size, ftype, msg)]
        ELSE ts[t]]

\* ------------------------------------------------------------ initial states
\* the job record and the coroutine of an image job between its
\* registration and its end
PhotoRecord == [type |-> "photo", cancel_event |-> 0]

RunningPhoto(u) == [Idle EXCEPT !.kind = "photo", !.user = u, !.pc = "running"]

InitCommon ==
    /\ user_cooldowns = <<>>
    /\ now = 0
    /\ submits = 0
    /\ delivered = [u \in Users |-> 0]
    /\ FaceTrack_next_id = 0
    /\ face_tracker = <<>>
    /\ tracker_updates = 0

\* the bot after start-up
InitIdle ==
    /\ InitCommon
    /\ active_tasks = <<>>
    /\ processing_queue = <<>>
    /\ user_modes = [u \in Users |-> "face"]
    /\ pending_voice = {}
    /\ tasks = [t \in Tids |-> Idle]
    /\ temp_dirs = <<>>
    /\ users_seen = 0

\* user 1 has an image job running and user 2's photo has passed the gate:
\* its "processing" message is being sent
InitRacing ==
    /\ InitCommon
    /\ active_tasks = [u \in {1} |-> PhotoRecord]
    /\ processing_queue = <<>>
    /\ user_modes = [u \in Users |-> "face"]
    /\ pending_voice = {}
    /\ tasks = [t \in Tids |->
                  IF t = 1 THEN RunningPhoto(1)
                  ELSE IF t = 2
                  THEN [Idle EXCEPT !.kind = "photo", !.user = 2,
                                    !.pc = "proc_msg"]
                  ELSE Idle]
    /\ temp_dirs = [t \in {1} |-> {}]
    /\ users_seen = 2

\* the first MAX_CONCURRENT_JOBS users each have an image job running and
\* nobody waits
InitBusy ==
    /\ InitCommon
    /\ active_tasks = [u \in 1..MAX_CONCURRENT_JOBS |-> PhotoRecord]
    /\ processing_queue = <<>>
    /\ user_modes = [u \in Users |-> "face"]
    /\ pending_voice = {}
    /\ tasks = [t \in Tids |->
                  IF t <= MAX_CONCURRENT_JOBS THEN RunningPhoto(t) ELSE Idle]
    /\ temp_dirs = [t \in 1..MAX_CONCURRENT_JOBS |-> {}]
    /\ users_seen = MAX_CONCURRENT_JOBS

\* full load: the first MAX_CONCURRENT_JOBS users each have an image job
\* running and the next two users wait in the queue; the "you are queued"
\* reply to the second of them could not be sent, so that entry has no
\* message id
InitLoaded ==
    /\ InitCommon
    /\ active_tasks = [u \in 1..MAX_CONCURRENT_JOBS |-> PhotoRecord]
    /\ processing_queue =
          <<NewEntry(MAX_CONCURRENT_JOBS + 1, 4, "photo", TRUE),
            NewEntry(MAX_CONCURRENT_JOBS + 2, 4, "photo", FALSE)>>
    /\ user_modes = [u \in Users |-> "face"]
    /\ pending_voice = {}
    /\ tasks = [t \in Tids |->
                  IF t <= MAX_CONCURRENT_JOBS THEN RunningPhoto(t) ELSE Idle]
    /\ temp_dirs = [t \in 1..MAX_CONCURRENT_JOBS |-> {}]
    /\ users_seen = MAX_CONCURRENT_JOBS + 2

\* user 1 is in voice mode and has been shown the level buttons of a video
InitVoicePending ==
    /\ InitCommon
    /\ active_tasks = <<>>
    /\ processing_queue = <<>>
    /\ user_modes = [u \in Users |-> IF u = 1 THEN "voice" ELSE "face"]
    /\ pending_voice = {1}
    /\ tasks = [t \in Tids |-> Idle]
    /\ temp_dirs = <<>>
    /\ users_seen = 1

\* user 1 has a video job whose pipeline thread has just been started:
\* blur_faces_in_video is at the top of its frame loop (kind "video"), or
\* anonymize_voice_fast at its first cancel check (kind "voice")
InitVideoJob(kind) ==
    /\ InitCommon
    /\ active_tasks = [u \in {1} |->
                         [type |-> IF kind = "video" THEN "video_face"
                                   ELSE "video_voice",
                          cancel_event |-> 1]]
    /\ processing_queue = <<>>
    /\ user_modes = [u \in Users |-> IF u = 1 /\ kind = "voice"
                                     THEN "voice" ELSE "face"]
    /\ pending_voice = IF kind = "voice" THEN {1} ELSE {}
    /\ tasks = [t \in Tids |->
                  IF t = 1
                  THEN [Idle EXCEPT !.kind = kind, !.user = 1,
                           !.pc = IF kind = "video" THEN "poll"
                                  ELSE "voice_poll"]
                  ELSE Idle]
    /\ temp_dirs = [t \in {1} |-> IF kind = "video"
                                   THEN {"input", "temp_output"}
                                   ELSE {"input"}]
    /\ users_seen = 1

InitQueue == InitIdle \/ InitRacing \/ InitLoaded

InitVideo ==
    \/ InitIdle
    \/ InitVoicePending
    \/ \E kind \in {"video", "voice"} : InitVideoJob(kind)

Init == InitBusy \/ InitVideo

\* a handler that returns before its first await needs no slot
Reject ==
    /\ UNCHANGED <<delivered, tracking>>
    /\ UNCHANGED <<active_tasks, processing_queue, user_modes, pending_voice,
                   now, tasks, temp_dirs>>

\* handlers/photo.py handle_photo, update from a user, up to its first await
HandlePhoto(u, size, dim_ok) ==
    /\ Update(u)
    /\ IF is_on_cooldown(user_cooldowns, u, now)
       THEN /\ Reject
            /\ UNCHANGED user_cooldowns
       ELSE
       /\ user_cooldowns' = is_on_cooldown_map(user_cooldowns, u, now)
       /\ IF user_modes[u] = "voice" THEN Reject
          ELSE IF u \in DOMAIN active_tasks THEN Reject
          ELSE IF is_server_busy(active_tasks)
          THEN /\ FreeTids(u) # {}
               /\ LET t == MinOf(FreeTids(u)) IN
                  /\ processing_queue' =
                        add_to_queue(processing_queue, u, size, "photo", FALSE)
                  /\ tasks' = [TasksAfterAdd(tasks, processing_queue, u, size,
                                             "photo", FALSE)
                               EXCEPT ![t] = [Idle EXCEPT !.kind = "photo",
                                    !.user = u, !.pc = "queue_reply",
                                    !.size = size]]
                  /\ UNCHANGED <<delivered, tracking>>
               /\ UNCHANGED <<active_tasks, user_modes, pending_voice, now,
                              temp_dirs>>
          ELSE /\ processing_queue' = remove_from_queue(processing_queue, u)
               /\ IF ~dim_ok \/ size > MAX_IMAGE_SIZE_MB
                  THEN /\ tasks' = TasksAfterRemove(tasks, processing_queue, u)
                       /\ UNCHANGED <<delivered, tracking>>
                  ELSE /\ FreeTids(u) # {}
                       /\ LET t == MinOf(FreeTids(u)) IN
                          /\ tasks' = [TasksAfterRemove(tasks,
                                            processing_queue, u)
                                       EXCEPT ![t] = [Idle EXCEPT
                                          !.kind = "photo", !.user = u,
                                          !.pc = "proc_msg"]]
                          /\ UNCHANGED <<delivered, tracking>>
               /\ UNCHANGED <<active_tasks, user_modes, pending_voice, now,
                              temp_dirs>>

\* handlers/photo.py handle_document, update from a user, up to its first
\* await; ftype is the type derived from the document's mime type
HandleDocument(u, size, ftype) ==
    /\ Update(u)
    /\ UNCHANGED user_cooldowns
    /\ IF ftype = "document_video"
       THEN \* handle_video(update, context, queued_data=...) is a TypeError
            Reject
       ELSE IF ftype = "unknown" THEN Reject
       ELSE IF is_server_busy(active_tasks)
       THEN /\ FreeTids(u) # {}
            /\ LET t == MinOf(FreeTids(u)) IN
               /\ processing_queue' = add_to_queue(processing_queue, u, size,
                                                   "document_photo", FALSE)
               /\ tasks' = [TasksAfterAdd(tasks, processing_queue, u, size,
                                          "document_photo", FALSE)
                            EXCEPT ![t] = [Idle EXCEPT !.kind = "document",
                                 !.user = u, !.pc = "queue_reply",
                                 !.size = size]]
               /\ UNCHANGED <<delivered, tracking>>
            /\ UNCHANGED <<active_tasks, user_modes, pending_voice, now,
                           temp_dirs>>
       ELSE /\ FreeTids(u) # {}
            /\ LET t == MinOf(FreeTids(u)) IN
               /\ tasks' = [tasks EXCEPT ![t] = [Idle EXCEPT
                              !.kind = "document", !.user = u,
                              !.pc = "proc_msg"]]
               /\ UNCHANGED <<delivered, tracking>>
            /\ UNCHANGED <<active_tasks, processing_queue, user_modes,
                           pending_voice, now, temp_dirs>>

\* handle_photo / handle_document: the reply to the "you are queued" message
\* arrives (or the send raises); the entry is given the message id
ImageQueueReply(t, sent) ==
    /\ tasks[t].kind \in {"photo", "document"}
    /\ tasks[t].pc = "queue_reply"
    /\ LET u == tasks[t].user
           ftype == IF tasks[t].kind = "photo" THEN "photo"
                    ELSE "document_photo"
       IN IF sent
          THEN /\ processing_queue' = add_to_queue(processing_queue, u,
                                          tasks[t].size, ftype, TRUE)
               /\ tasks' = [TasksAfterAdd(tasks, processing_queue, u,
                                          tasks[t].size, ftype, TRUE)
                            EXCEPT ![t] = Idle]
               /\ UNCHANGED <<delivered, tracking>>
          ELSE /\ tasks' = [tasks EXCEPT ![t] = Idle]
               /\ UNCHANGED <<delivered, tracking>>
               /\ UNCHANGED processing_queue
    /\ UNCHANGED <<active_tasks, user_cooldowns, user_modes, pending_voice,
                   now, temp_dirs, submits, users_seen>>

\* handle_photo / handle_document: the "processing" message is sent, the job
\* is registered in active_tasks and its TemporaryDirectory is created
ImageRegister(t, sent) ==
    /\ tasks[t].kind \in {"photo", "document"}
    /\ tasks[t].pc = "proc_msg"
    /\ LET u == tasks[t].user IN
       IF sent
       THEN /\ active_tasks' = DictSet(active_tasks, u,
                    [type |-> tasks[t].kind, cancel_event |-> 0])
            /\ temp_dirs' = DictSet(temp_dirs, t, {})
            /\ tasks' = [tasks EXCEPT ![t].pc = "running"]
            /\ UNCHANGED <<delivered, tracking>>
       ELSE /\ tasks' = [tasks EXCEPT ![t] = Idle]
            /\ UNCHANGED <<delivered, tracking>>
            /\ UNCHANGED <<active_tasks, temp_dirs>>
    /\ UNCHANGED <<processing_queue, user_cooldowns, user_modes,
                   pending_voice, now, submits, users_seen>>

\* a finally block without its del active_tasks[user_id]
finally_keeps_record(at, u) == at

\* the finally block of the handlers: del active_tasks[user_id]
finally_active_tasks(at, u) == IF u \in DOMAIN at THEN DictDel(at, u) ELSE at

\* handle_photo / handle_document from the download to the end of the
\* finally block: outcome is "ok" (blurred, result and warning sent), "fail"
\* (blur returned False) or "exc" (something raised, the send of the warning
\* included)
ImageFinish(t, outcome) ==
    /\ tasks[t].kind \in {"photo", "document"}
    /\ tasks[t].pc = "running"
    /\ LET u == tasks[t].user IN
       /\ user_cooldowns' = IF outcome = "ok"
                            THEN set_cooldown(user_cooldowns, u, now)
                            ELSE user_cooldowns
       /\ active_tasks' = finally_active_tasks(active_tasks, u)
       /\ temp_dirs' = DictDel(temp_dirs, t)
       /\ tasks' = [tasks EXCEPT ![t] = [Idle EXCEPT !.kind = "trigger",
                                         !.pc = "t_update"]]
    /\ UNCHANGED <<processing_queue, user_modes, pending_voice, now, submits,
                   users_seen, delivered, tracking>>


\* handlers/video.py handle_video up to its first await.  The busy branch
\* calls add_to_queue with three arguments, which raises TypeError before
\* the queue is touched.
HandleVideo(u, size, duration) ==
    /\ Update(u)
    /\ IF is_on_cooldown(user_cooldowns, u, now)
       THEN /\ Reject
            /\ UNCHANGED user_cooldowns
       ELSE
       /\ user_cooldowns' = is_on_cooldown_map(user_cooldowns, u, now)
       /\ IF u \in DOMAIN active_tasks THEN Reject
          ELSE IF is_server_busy(active_tasks)
          THEN Reject
          ELSE IF size > MAX_VIDEO_SIZE_MB
          THEN Reject
          ELSE IF duration > MAX_VIDEO_DURATION_SECONDS
          THEN Reject
          ELSE IF user_modes[u] = "face"
          THEN /\ FreeTids(u) # {}
               /\ LET t == MinOf(FreeTids(u)) IN
                  /\ tasks' = [tasks EXCEPT ![t] = [Idle EXCEPT
                                 !.kind = "video", !.user = u,
                                 !.pc = "proc_msg"]]
                  /\ UNCHANGED <<delivered, tracking>>
               /\ UNCHANGED <<active_tasks, processing_queue, user_modes,
                              pending_voice, now, temp_dirs>>
          ELSE \* process_voice_anon: remember the video, show the buttons
               /\ pending_voice' = pending_voice \cup {u}
               /\ UNCHANGED <<delivered, tracking>>
               /\ UNCHANGED <<active_tasks, processing_queue, user_modes,
                              now, tasks, temp_dirs>>

\* handlers/video.py voice_level_callback up to the edit of the message
VoiceLevelCallback(u) ==
    /\ Update(u)
    /\ IF u \notin pending_voice
       THEN /\ UNCHANGED <<delivered, tracking>>
            /\ UNCHANGED tasks
       ELSE /\ FreeTids(u) # {}
            /\ LET t == MinOf(FreeTids(u)) IN
               /\ tasks' = [tasks EXCEPT ![t] = [Idle EXCEPT
                              !.kind = "voice", !.user = u,
                              !.pc = "proc_msg"]]
               /\ UNCHANGED <<delivered, tracking>>
    /\ UNCHANGED <<active_tasks, processing_queue, user_cooldowns, user_modes,
                   pending_voice, now, temp_dirs>>

\* the record process_face_blur / voice_level_callback put in active_tasks
VideoRecord(t) ==
    [type |-> IF tasks[t].kind = "video" THEN "video_face"
              ELSE "video_voice",
     cancel_event |-> t]

\* process_face_blur / voice_level_callback: the "processing" message is
\* sent, mkdtemp, the job is registered with its cancel_event
VideoRegister(t, sent) ==
    /\ tasks[t].kind \in {"video", "voice"}
    /\ tasks[t].pc = "proc_msg"
    /\ LET u == tasks[t].user IN
       IF sent
       THEN /\ active_tasks' = DictSet(active_tasks, u, VideoRecord(t))
            /\ temp_dirs' = DictSet(temp_dirs, t, {})
            /\ tasks' = [tasks EXCEPT ![t].pc = "download"]
            /\ UNCHANGED <<delivered, tracking>>
       ELSE /\ tasks' = [tasks EXCEPT ![t] = Idle]
            /\ UNCHANGED <<delivered, tracking>>
            /\ UNCHANGED <<active_tasks, temp_dirs>>
    /\ UNCHANGED <<processing_queue, user_cooldowns, user_modes,
                   pending_voice, now, submits, users_seen>>

\* get_file / download_to_drive return (or raise), then cancel_event.is_set()
\* is read once before the pipeline thread is started
VideoDownload(t, ok) ==
    /\ tasks[t].kind \in {"video", "voice"}
    /\ tasks[t].pc = "download"
    /\ IF ~ok
       THEN /\ tasks' = [tasks EXCEPT ![t].pc = "returned",
                                      ![t].raised = TRUE]
            /\ UNCHANGED temp_dirs
       ELSE /\ temp_dirs' = [temp_dirs EXCEPT ![t] = @ \cup {"input"}]
            /\ IF tasks[t].cancel_event
               THEN tasks' = [tasks EXCEPT ![t].pc = "returned",
                                           ![t].was_cancelled = TRUE]
               ELSE tasks' = [tasks EXCEPT ![t].pc =
                        IF tasks[t].kind = "video" THEN "blur_open"
                        ELSE "voice_poll"]
    /\ UNCHANGED <<delivered, tracking>>
    /\ UNCHANGED <<active_tasks, processing_queue, user_cooldowns, user_modes,
                   pending_voice, now, submits, users_seen>>

\* ------------------------------------------- processors/face_blur.py
\* blur_faces_in_video before the loop: model, detector, VideoCapture and
\* VideoWriter(temp_output)
BlurOpen(t, opened) ==
    /\ tasks[t].pc = "blur_open"
    /\ IF opened
       THEN /\ temp_dirs' = [temp_dirs EXCEPT ![t] = @ \cup {"temp_output"}]
            /\ tasks' = [tasks EXCEPT ![t].pc = "poll"]
       ELSE /\ tasks' = [tasks EXCEPT ![t].pc = "returned"]
            /\ UNCHANGED temp_dirs
    /\ UNCHANGED <<delivered, tracking>>
    /\ UNCHANGED <<active_tasks, processing_queue, user_cooldowns, user_modes,
                   pending_voice, now, submits, users_seen>>

\* the cancelled branch without its os.remove(temp_output)
keep_temp_output(files) == files

\* what the cancelled branch after the loop leaves in the workspace
remove_temp_output(files) == files \ {"temp_output"}

\* top of the while loop: cancel_check(); a true read leaves the loop,
\* releases the writer, removes temp_output and returns (False, True)
BlurPoll(t) ==
    /\ tasks[t].pc = "poll"
    /\ IF tasks[t].cancel_event
       THEN /\ tasks' = [tasks EXCEPT ![t].pc = "returned",
                                      ![t].was_cancelled = TRUE,
                                      ![t].success = FALSE]
            /\ temp_dirs' = [temp_dirs EXCEPT ![t] = remove_temp_output(@)]
       ELSE /\ tasks' = [tasks EXCEPT ![t].pc = "read"]
            /\ UNCHANGED temp_dirs
    /\ UNCHANGED <<delivered, tracking>>
    /\ UNCHANGED <<active_tasks, processing_queue, user_cooldowns, user_modes,
                   pending_voice, now, submits, users_seen>>

\* cap.read(): another frame, or the end of the stream, which leaves the
\* loop with was_cancelled = False
BlurRead(t, got) ==
    /\ tasks[t].pc = "read"
    /\ got => tasks[t].frame_count < MaxFrames
    /\ tasks' = IF got
                THEN [tasks EXCEPT ![t].pc = "frame",
                                   ![t].frame_count = @ + 1]
                ELSE [tasks EXCEPT ![t].pc = "transcode"]
    /\ UNCHANGED <<delivered, tracking>>
    /\ UNCHANGED <<active_tasks, processing_queue, user_cooldowns, user_modes,
                   pending_voice, now, temp_dirs, submits, users_seen>>

\* detect, FaceTracker.update, blur, out.write for one frame; nothing in the
\* loop catches an exception of the detector or the tracker
BlurFrame(t, raises) ==
    /\ tasks[t].pc = "frame"
    /\ tasks' = IF raises
                THEN [tasks EXCEPT ![t].pc = "returned", ![t].raised = TRUE]
                ELSE [tasks EXCEPT ![t].pc = "poll"]
    /\ UNCHANGED <<delivered, tracking>>
    /\ UNCHANGED <<active_tasks, processing_queue, user_cooldowns, user_modes,
                   pending_voice, now, temp_dirs, submits, users_seen>>

\* a transcode step whose failure fails the pipeline
BlurTranscode_fails(t, remuxed) ==
    /\ tasks[t].pc = "transcode"
    /\ temp_dirs' = IF remuxed
                    THEN [temp_dirs EXCEPT
                             ![t] = (@ \ {"temp_output"}) \cup {"output"}]
                    ELSE temp_dirs
    /\ tasks' = [tasks EXCEPT ![t].pc = "returned", ![t].success = remuxed,
                              ![t].was_cancelled = FALSE]
    /\ UNCHANGED <<delivered, tracking>>
    /\ UNCHANGED <<active_tasks, processing_queue, user_cooldowns, user_modes,
                   pending_voice, now, submits, users_seen>>

\* after the loop, not cancelled: ffmpeg re-mux; when it fails or is missing
\* temp_output is moved to output_path; both ways return (True, False)
BlurTranscode(t, remuxed) ==
    /\ tasks[t].pc = "transcode"
    /\ temp_dirs' = [temp_dirs EXCEPT
                        ![t] = (@ \ {"temp_output"}) \cup {"output"}]
    /\ tasks' = [tasks EXCEPT ![t].pc = "returned", ![t].success = TRUE,
                              ![t].was_cancelled = FALSE]
    /\ UNCHANGED <<delivered, tracking>>
    /\ UNCHANGED <<active_tasks, processing_queue, user_cooldowns, user_modes,
                   pending_voice, now, submits, users_seen>>

\* ------------------------------------------- processors/voice_anon.py
\* anonymize_voice_fast: the cancel checks before ffmpeg is run
VoicePoll(t) ==
    /\ tasks[t].pc = "voice_poll"
    /\ tasks' = IF tasks[t].cancel_event
                THEN [tasks EXCEPT ![t].pc = "returned",
                                   ![t].was_cancelled = TRUE]
                ELSE [tasks EXCEPT ![t].pc = "voice_ffmpeg"]
    /\ UNCHANGED <<delivered, tracking>>
    /\ UNCHANGED <<active_tasks, processing_queue, user_cooldowns, user_modes,
                   pending_voice, now, temp_dirs, submits, users_seen>>

\* subprocess.run(ffmpeg), then the cancel check that removes the output,
\* then the return code
VoiceFfmpeg(t, rc_ok) ==
    /\ tasks[t].pc = "voice_ffmpeg"
    /\ temp_dirs' = IF rc_ok
                    THEN [temp_dirs EXCEPT ![t] = @ \cup {"output"}]
                    ELSE temp_dirs
    /\ tasks' = [tasks EXCEPT ![t].pc = "voice_post", ![t].success = rc_ok]
    /\ UNCHANGED <<delivered, tracking>>
    /\ UNCHANGED <<active_tasks, processing_queue, user_cooldowns, user_modes,
                   pending_voice, now, submits, users_seen>>

VoicePost(t) ==
    /\ tasks[t].pc = "voice_post"
    /\ IF tasks[t].cancel_event
       THEN /\ temp_dirs' = [temp_dirs EXCEPT ![t] = @ \ {"output"}]
            /\ tasks' = [tasks EXCEPT ![t].pc = "returned",
                                      ![t].success = FALSE,
                                      ![t].was_cancelled = TRUE]
       ELSE /\ tasks' = [tasks EXCEPT ![t].pc = "returned"]
            /\ UNCHANGED temp_dirs
    /\ UNCHANGED <<delivered, tracking>>
    /\ UNCHANGED <<active_tasks, processing_queue, user_cooldowns, user_modes,
                   pending_voice, now, submits, users_seen>>

\* --------------------------------------------------- handlers/video.py
\* what the handler tells the user once the pipeline has returned
\* a VideoOutcome that does not look at what the pipeline returned
VideoOutcome_unchecked(task, files, sent) ==
    IF task.raised THEN "error"
    ELSE IF task.was_cancelled THEN "aborted"
    ELSE CASE sent = "all" -> "delivered"
           [] sent = "result" -> "delivered_error"
           [] OTHER -> "error"

VideoOutcome(task, files, sent) ==
    IF task.raised THEN "error"
    ELSE IF task.was_cancelled THEN "aborted"
    ELSE IF task.success /\ "output" \in files
    THEN CASE sent = "all" -> "delivered"
           [] sent = "result" -> "delivered_error"
           [] OTHER -> "error"
    ELSE "failed"

\* process_face_blur / voice_level_callback from the return of the pipeline
\* to the end of the finally block; sent is what could be sent of the
\* result and the warning that follows it ("all", "result" or "none")
VideoFinish(t, sent) ==
    /\ tasks[t].kind \in {"video", "voice"}
    /\ tasks[t].pc = "returned"
    /\ LET u == tasks[t].user
           res == VideoOutcome(tasks[t], temp_dirs[t], sent)
       IN /\ user_cooldowns' = IF res = "delivered"
                               THEN set_cooldown(user_cooldowns, u, now)
                               ELSE user_cooldowns
          /\ active_tasks' = finally_active_tasks(active_tasks, u)
          /\ temp_dirs' = DictDel(temp_dirs, t)
          /\ pending_voice' = IF tasks[t].kind = "voice"
                              THEN pending_voice \ {u} ELSE pending_voice
          /\ tasks' = [tasks EXCEPT ![t] = Idle]
          /\ delivered' = IF res \in {"delivered", "delivered_error"}
                          THEN [delivered EXCEPT ![u] = @ + 1]
                          ELSE delivered
    /\ UNCHANGED <<processing_queue, user_modes, now, submits, users_seen,
                   tracking>>


\* ------------------------------------- notify_next_in_queue / queue_worker
\* update_all_queue_messages walks the live list by index and awaits one
\* edit for every entry that has a message id (told: the position each user
\* was sent in this walk); after the walk the gate is checked, the head is
\* read and the turn notification is awaited
NotifyNextInQueue(t) ==
    /\ tasks[t].kind \in {"trigger", "notify"}
    /\ tasks[t].pc = "t_update"
    /\ LET q == processing_queue
           rest == {j \in (tasks[t].idx + 1)..Len(q) : q[j].queue_msg_id}
       IN IF rest # {}
          THEN \* position = i + 1 goes to the user of entry i
               LET j == MinOf(rest) IN
               /\ tasks' = [tasks EXCEPT ![t].idx = j,
                                         ![t].told = DictSet(@, q[j].user_id, j)]
               /\ UNCHANGED <<delivered, tracking>>
          ELSE IF is_server_busy(active_tasks)
          THEN /\ tasks' = [tasks EXCEPT ![t] = Idle]
               /\ UNCHANGED <<delivered, tracking>>
          ELSE IF get_next_in_queue(q) = NoEntry
          THEN /\ tasks' = [tasks EXCEPT ![t] = Idle]
               /\ UNCHANGED <<delivered, tracking>>
          ELSE /\ tasks' = [tasks EXCEPT ![t].pc = "t_turn",
                               ![t].entry = get_next_in_queue(q),
                               ![t].alias = TRUE]
               /\ UNCHANGED <<delivered, tracking>>
    /\ UNCHANGED <<active_tasks, processing_queue, user_cooldowns, user_modes,
                   pending_voice, now, temp_dirs, submits, users_seen>>

\* the handler trigger_next_queued_job calls for an entry
HandlerKind(ftype) ==
    IF ftype = "photo" THEN "photo"
    ELSE IF ftype = "video" THEN "video" ELSE "document"

\* the turn notification returns or raises.  Raised: the user is removed
\* from the queue and nothing else happens.  Sent: the notify_next_in_queue
\* task of stop_command (kind "notify") is over; trigger_next_queued_job
\* calls the handler of the entry's file_type with update = None; whatever
\* the handler raises is caught and the user is removed from the queue.
TriggerNextQueuedJob(t, sent) ==
    /\ tasks[t].kind \in {"trigger", "notify"}
    /\ tasks[t].pc = "t_turn"
    /\ LET e == tasks[t].entry
           u == e.user_id
           kind == HandlerKind(e.file_type)
       IN IF tasks[t].kind = "notify" /\ sent
          THEN /\ tasks' = [tasks EXCEPT ![t] = Idle]
               /\ UNCHANGED <<processing_queue, delivered, tracking>>
          ELSE
          /\ processing_queue' = remove_from_queue(processing_queue, u)
          /\ IF ~sent
             THEN /\ tasks' = [TasksAfterRemove(tasks, processing_queue, u)
                               EXCEPT ![t] = Idle]
                  /\ UNCHANGED <<delivered, tracking>>
             ELSE IF kind = "video" \/ require_auth_raises("None")
             THEN /\ tasks' = [TasksAfterRemove(tasks, processing_queue, u)
                               EXCEPT ![t] = Idle]
                  /\ UNCHANGED <<delivered, tracking>>
             ELSE IF kind = "photo" /\ e.file_size_mb > MAX_IMAGE_SIZE_MB
             THEN /\ tasks' = [TasksAfterRemove(tasks, processing_queue, u)
                               EXCEPT ![t] = Idle]
                  /\ UNCHANGED <<delivered, tracking>>
             ELSE /\ tasks' = [TasksAfterRemove(tasks, processing_queue, u)
                               EXCEPT ![t] = [Idle EXCEPT !.kind = kind,
                                    !.user = u, !.pc = "proc_msg",
                                    !.queued = TRUE]]
                  /\ UNCHANGED <<delivered, tracking>>
    /\ UNCHANGED <<active_tasks, user_cooldowns, user_modes, pending_voice,
                   now, temp_dirs, submits, users_seen>>

\* ------------------------------------------------ handlers/commands.py
\* a stop_command that, for a user with nothing to stop, sets the
\* cancel_event of every job
StopCommand_stops_all(u) ==
    /\ Update(u)
    /\ IF is_in_queue(processing_queue, u)
       THEN /\ processing_queue' = remove_from_queue(processing_queue, u)
            /\ FreeTids(u) # {}
            /\ LET t == MinOf(FreeTids(u)) IN
               tasks' = [TasksAfterRemove(tasks, processing_queue, u)
                         EXCEPT ![t] = [Idle EXCEPT !.kind = "notify",
                                                    !.pc = "t_update"]]
            /\ UNCHANGED <<delivered, tracking>>
       ELSE IF u \notin DOMAIN active_tasks
       THEN /\ tasks' = [t \in Tids |->
                           IF \E v \in DOMAIN active_tasks :
                                 active_tasks[v].cancel_event = t
                           THEN [tasks[t] EXCEPT !.cancel_event = TRUE]
                           ELSE tasks[t]]
            /\ UNCHANGED <<delivered, tracking>>
            /\ UNCHANGED processing_queue
       ELSE LET ce == active_tasks[u].cancel_event IN
            /\ tasks' = IF ce # 0
                        THEN [tasks EXCEPT ![ce].cancel_event = TRUE]
                        ELSE tasks
            /\ UNCHANGED <<delivered, tracking>>
            /\ UNCHANGED processing_queue
    /\ UNCHANGED <<active_tasks, user_cooldowns, user_modes, pending_voice,
                   now, temp_dirs>>

\* stop_command: leave the queue, or set the cancel_event of the record
StopCommand(u) ==
    /\ Update(u)
    /\ IF is_in_queue(processing_queue, u)
       THEN \* asyncio.create_task(notify_next_in_queue(context))
            /\ processing_queue' = remove_from_queue(processing_queue, u)
            /\ FreeTids(u) # {}
            /\ LET t == MinOf(FreeTids(u)) IN
               tasks' = [TasksAfterRemove(tasks, processing_queue, u)
                         EXCEPT ![t] = [Idle EXCEPT !.kind = "notify",
                                                    !.pc = "t_update"]]
            /\ UNCHANGED <<delivered, tracking>>
       ELSE IF u \notin DOMAIN active_tasks
       THEN /\ UNCHANGED <<delivered, tracking>>
            /\ UNCHANGED <<processing_queue, tasks>>
       ELSE LET ce == active_tasks[u].cancel_event IN
            /\ tasks' = IF ce # 0
                        THEN [tasks EXCEPT ![ce].cancel_event = TRUE]
                        ELSE tasks
            /\ UNCHANGED <<delivered, tracking>>
            /\ UNCHANGED processing_queue
    /\ UNCHANGED <<active_tasks, user_cooldowns, user_modes, pending_voice,
                   now, temp_dirs>>

\* mode_callback
ModeCallback(u, m) ==
    /\ Update(u)
    /\ user_modes[u] # m
    /\ user_modes' = [user_modes EXCEPT ![u] = m]
    /\ UNCHANGED <<delivered, tracking>>
    /\ UNCHANGED <<active_tasks, processing_queue, user_cooldowns,
                   pending_voice, now, tasks, temp_dirs>>

\* time.time() moves on
Tick ==
    /\ now + COOLDOWN_SECONDS <= MaxTime
    /\ user_cooldowns # <<>>
    /\ now' = now + COOLDOWN_SECONDS
    /\ UNCHANGED <<delivered, tracking>>
    /\ UNCHANGED <<active_tasks, processing_queue, user_cooldowns, user_modes,
                   pending_voice, tasks, temp_dirs, submits, users_seen>>

\* ------------------------------------------------------ utils/tracking.py
\* Boxes are [x, y, w, h].  The boxes of the detector and of the KCF
\* trackers are drawn from a few boxes of a 1:5 scale frame: a face, the
\* same face moved right by a fifth of a tenth of its width, a small box at
\* the centre of the face, and a face far away.
Box(x, y, w, h) == <<x, y, w, h>>

Boxes == {Box(20, 20, 10, 10), Box(21, 20, 10, 10), Box(24, 24, 2, 2),
          Box(60, 60, 10, 10)}

\* what tracker.update may report: no success (or no tracker), or a box
KcfResults == {<<>>, Box(21, 20, 10, 10)}

\* what the KCF trackers of the tracks may report in one frame
KcfLists == UNION {[1..n -> KcfResults] : n \in 0..MaxTracks}

\* the lists detector.detect may return
DetectionLists ==
    {<<>>,
     <<Box(20, 20, 10, 10)>>, <<Box(21, 20, 10, 10)>>,
     <<Box(24, 24, 2, 2)>>, <<Box(60, 60, 10, 10)>>,
     <<Box(24, 24, 2, 2), Box(21, 20, 10, 10)>>,
     <<Box(21, 20, 10, 10), Box(24, 24, 2, 2)>>,
     <<Box(21, 20, 10, 10), Box(20, 20, 10, 10)>>,
     <<Box(20, 20, 10, 10), Box(60, 60, 10, 10)>>,
     <<Box(22, 20, 10, 10), Box(20, 20, 10, 10)>>}

\* the pipeline threads that can run at the same time
TrackJobs == 1..MAX_CONCURRENT_JOBS

Max2(a, b) == IF a >= b THEN a ELSE b

Min2(a, b) == IF a <= b THEN a ELSE b

Range(s) == {s[i] : i \in 1..Len(s)}

\* a calculate_iou that divides by the area of box1 instead of the union
calculate_iou_over_box1(box1, box2) ==
    LET inter_x1 == Max2(box1[1], box2[1])
        inter_y1 == Max2(box1[2], box2[2])
        inter_x2 == Min2(box1[1] + box1[3], box2[1] + box2[3])
        inter_y2 == Min2(box1[2] + box1[4], box2[2] + box2[4])
    IN IF inter_x2 <= inter_x1 \/ inter_y2 <= inter_y1 THEN <<0, 1>>
       ELSE LET inter_area == (inter_x2 - inter_x1) * (inter_y2 - inter_y1)
                union_area == box1[3] * box1[4]
            IN IF union_area > 0 THEN <<inter_area, union_area>>
               ELSE <<0, 1>>

\* calculate_iou, as the fraction <<inter_area, union_area>>; 0.0 is <<0, 1>>
calculate_iou(box1, box2) ==
    LET inter_x1 == Max2(box1[1], box2[1])
        inter_y1 == Max2(box1[2], box2[2])
        inter_x2 == Min2(box1[1] + box1[3], box2[1] + box2[3])
        inter_y2 == Min2(box1[2] + box1[4], box2[2] + box2[4])
    IN IF inter_x2 <= inter_x1 \/ inter_y2 <= inter_y1 THEN <<0, 1>>
       ELSE LET inter_area == (inter_x2 - inter_x1) * (inter_y2 - inter_y1)
                union_area == box1[3] * box1[4] + box2[3] * box2[4]
                              - inter_area
            IN IF union_area > 0 THEN <<inter_area, union_area>>
               ELSE <<0, 1>>

\* iou >= self.iou_threshold
iou_reaches_threshold(iou) == iou[1] * 100 >= iou_threshold_pct * iou[2]

\* _get_distance: 4 * distance^2, the centres taken in half pixels
get_distance_sq4(bbox1, bbox2) ==
    LET dx == (2 * bbox1[1] + bbox1[3]) - (2 * bbox2[1] + bbox2[3])
        dy == (2 * bbox1[2] + bbox1[4]) - (2 * bbox2[2] + bbox2[4])
    IN dx * dx + dy * dy

\* A score is off + n / d (kind "iou") or off - sqrt(n) / d (kind "dist");
\* best_score = -1 is kind "none".
NoScore == [kind |-> "none", off |-> 0, n |-> 0, d |-> 1]

\* an IoU score without the "+ 1"
iou_score_unshifted(iou) == [kind |-> "iou", off |-> 0, n |-> iou[1], d |-> iou[2]]

\* score = iou + 1
iou_score(iou) == [kind |-> "iou", off |-> 1, n |-> iou[1], d |-> iou[2]]

\* score = 1 - (distance / max_distance), with
\* max_distance = avg_size * distance_threshold_ratio and
\* avg_size = (w1 + h1 + w2 + h2) / 4
distance_score(bbox, det) ==
    [kind |-> "dist", off |-> 1, n |-> 16 * get_distance_sq4(bbox, det),
     d |-> distance_threshold_ratio_x2 * (bbox[3] + bbox[4] + det[3] + det[4])]

\* distance < max_distance
distance_below_max(score) == score.n < score.d * score.d

\* score >= best_score: a later detection of equal score replaces the best
ScoreGreater_or_equal(a, b) ==
    IF b.kind = "none" THEN TRUE
    ELSE IF a.kind = "iou" /\ b.kind = "iou"
    THEN a.off * a.d * b.d + a.n * b.d >= b.off * a.d * b.d + b.n * a.d
    ELSE IF a.kind = "dist" /\ b.kind = "dist"
    THEN a.n * b.d * b.d <= b.n * a.d * a.d
    ELSE IF a.kind = "iou"
    THEN LET rhs == (1 - a.off) * a.d - a.n IN
         IF rhs < 0 THEN TRUE
         ELSE b.n * a.d * a.d >= b.d * b.d * rhs * rhs
    ELSE LET rhs == (1 - b.off) * b.d - b.n IN
         IF rhs < 0 THEN FALSE
         ELSE a.n * b.d * b.d <= a.d * a.d * rhs * rhs

\* score > best_score
ScoreGreater(a, b) ==
    IF b.kind = "none" THEN TRUE
    ELSE IF a.kind = "iou" /\ b.kind = "iou"
    THEN a.off * a.d * b.d + a.n * b.d > b.off * a.d * b.d + b.n * a.d
    ELSE IF a.kind = "dist" /\ b.kind = "dist"
    THEN a.n * b.d * b.d < b.n * a.d * a.d
    ELSE IF a.kind = "iou"
    THEN \* off + n/d > 1 - sqrt(b.n)/b.d
         LET rhs == (1 - a.off) * a.d - a.n IN
         IF rhs < 0 THEN TRUE
         ELSE b.n * a.d * a.d > b.d * b.d * rhs * rhs
    ELSE \* 1 - sqrt(a.n)/a.d > off + n/d
         LET rhs == (1 - b.off) * b.d - b.n IN
         IF rhs <= 0 THEN FALSE
         ELSE a.n * b.d * b.d < a.d * a.d * rhs * rhs

\* FaceTrack.__init__
FaceTrack(id, bbox) == [id |-> id, bbox |-> bbox, frames_since_detection |-> 0]

\* FaceTrack.update_with_detection
update_with_detection(track, bbox) ==
    [track EXCEPT !.bbox = bbox, !.frames_since_detection = 0]

\* an update_with_tracker that leaves frames_since_detection alone
update_with_tracker_frozen(track, kcf) ==
    [track EXCEPT !.bbox = IF kcf = <<>> THEN @ ELSE kcf]

\* an update_with_tracker that gives a track up when its KCF tracker fails
update_with_tracker_fatal(track, kcf) ==
    IF kcf = <<>>
    THEN [track EXCEPT !.frames_since_detection = max_frames_without_detection]
    ELSE [track EXCEPT !.frames_since_detection = @ + 1, !.bbox = kcf]

\* FaceTrack.update_with_tracker; kcf is what the KCF tracker reports (<<>>
\* when there is no tracker, no success or an exception)
update_with_tracker(track, kcf) ==
    [track EXCEPT !.frames_since_detection = @ + 1,
                  !.bbox = IF kcf = <<>> THEN @ ELSE kcf]

\* an is_valid that lets a track live one frame longer
is_valid_late(track) ==
    track.frames_since_detection <= max_frames_without_detection

\* FaceTrack.is_valid
is_valid(track) ==
    track.frames_since_detection < max_frames_without_detection

\* a get_blur_bbox that rounds the expansion to the nearest pixel
get_blur_bbox_rounded(track) ==
    LET expand_w == (track.bbox[3] * 3 + 5) \div 10
        expand_h == (track.bbox[4] * 3 + 5) \div 10
    IN Box(track.bbox[1] - expand_w, track.bbox[2] - expand_h,
           track.bbox[3] + expand_w * 2, track.bbox[4] + expand_h * 2)

\* FaceTrack.get_blur_bbox: expand_ratio = 0.6, int(w * 0.6 / 2)
get_blur_bbox(track) ==
    LET expand_w == (track.bbox[3] * 3) \div 10
        expand_h == (track.bbox[4] * 3) \div 10
    IN Box(track.bbox[1] - expand_w, track.bbox[2] - expand_h,
           track.bbox[3] + expand_w * 2, track.bbox[4] + expand_h * 2)

\* FaceTracker.get_blur_regions
get_blur_regions(tracks) == [i \in 1..Len(tracks) |-> get_blur_bbox(tracks[i])]

\* FaceTracker.update, the inner loop over the detections for one track:
\* the index of the detection the track takes, 0 for none
RECURSIVE BestDetection(_, _, _, _, _, _)
BestDetection(bbox, detections, used_detections, i, best_score, best_det_idx) ==
    IF i > Len(detections) THEN best_det_idx
    ELSE IF i \in used_detections
    THEN BestDetection(bbox, detections, used_detections, i + 1, best_score,
                       best_det_idx)
    ELSE LET iou == calculate_iou(bbox, detections[i])
             score == IF iou_reaches_threshold(iou) THEN iou_score(iou)
                      ELSE distance_score(bbox, detections[i])
         IN IF /\ iou_reaches_threshold(iou) \/ distance_below_max(score)
               /\ ScoreGreater(score, best_score)
            THEN BestDetection(bbox, detections, used_detections, i + 1,
                               score, i)
            ELSE BestDetection(bbox, detections, used_detections, i + 1,
                               best_score, best_det_idx)

\* FaceTracker.update, the loop over the tracks: m[i] is the index of the
\* detection track i is matched to, 0 when it is matched to none
RECURSIVE MatchTracks(_, _, _, _, _)
MatchTracks(tracks, detections, i, used_detections, m) ==
    IF i > Len(tracks) THEN m
    ELSE LET b == BestDetection(tracks[i].bbox, detections, used_detections,
                                1, NoScore, 0)
         IN IF b > 0
            THEN MatchTracks(tracks, detections, i + 1,
                             used_detections \cup {b}, Append(m, b))
            ELSE MatchTracks(tracks, detections, i + 1, used_detections,
                             Append(m, 0))

\* FaceTracker.update, first loop
UpdateWithTrackers(tracks, kcf) ==
    [i \in 1..Len(tracks) |-> update_with_tracker(tracks[i], kcf[i])]

\* a matching that lets the newest track choose first
Matching_newest_first(tracks, detections, kcf) ==
    LET moved == UpdateWithTrackers(tracks, kcf)
        n == Len(moved)
        mr == MatchTracks([i \in 1..n |-> moved[n + 1 - i]], detections, 1,
                          {}, <<>>)
    IN [i \in 1..n |-> mr[n + 1 - i]]

\* the detections track i of tracks is matched to in update(detections)
Matching(tracks, detections, kcf) ==
    MatchTracks(UpdateWithTrackers(tracks, kcf), detections, 1, {}, <<>>)

\* FaceTracker.update, third loop: a FaceTrack for every unused detection
RECURSIVE NewTracks(_, _, _, _)
NewTracks(detections, used_detections, i, next_id) ==
    IF i > Len(detections) THEN <<>>
    ELSE IF i \in used_detections
    THEN NewTracks(detections, used_detections, i + 1, next_id)
    ELSE <<FaceTrack(next_id, detections[i])>>
         \o NewTracks(detections, used_detections, i + 1, next_id + 1)

\* a third loop that spawns a FaceTrack for every detection, used or not
ApplyMatching_spawns_all(moved, detections, m, next_id) ==
    LET matched == [i \in 1..Len(moved) |->
                      IF m[i] > 0
                      THEN update_with_detection(moved[i], detections[m[i]])
                      ELSE moved[i]]
        created == NewTracks(detections, {}, 1, next_id)
    IN [tracks |-> SelectSeq(matched \o created, is_valid),
        next_id |-> next_id + Len(created)]

\* FaceTracker.update from the matching on
ApplyMatching(moved, detections, m, next_id) ==
    LET matched == [i \in 1..Len(moved) |->
                      IF m[i] > 0
                      THEN update_with_detection(moved[i], detections[m[i]])
                      ELSE moved[i]]
        created == NewTracks(detections, Range(m), 1, next_id)
    IN [tracks |-> SelectSeq(matched \o created, is_valid),
        next_id |-> next_id + Len(created)]

\* FaceTracker.update: the tracks it leaves and FaceTrack._next_id after it
FaceTracker_update(tracks, detections, kcf, next_id) ==
    ApplyMatching(UpdateWithTrackers(tracks, kcf), detections,
                  Matching(tracks, detections, kcf), next_id)

\* blur_faces_in_video: face_tracker = FaceTracker(); FaceTrack._next_id = 0
TrackerStart(j) ==
    /\ j \notin DOMAIN face_tracker
    /\ face_tracker' = DictSet(face_tracker, j, <<>>)
    /\ FaceTrack_next_id' = 0
    /\ UNCHANGED tracker_updates
    /\ UNCHANGED <<active_tasks, processing_queue, user_cooldowns, user_modes,
                   pending_voice, now, tasks, temp_dirs, submits, users_seen,
                   delivered>>

\* blur_faces_in_video, one frame: face_tracker.update(detections, frame)
TrackerUpdate(j, detections, kcf) ==
    /\ j \in DOMAIN face_tracker
    /\ tracker_updates < MaxUpdates
    /\ Len(kcf) = Len(face_tracker[j])
    /\ \E r \in {FaceTracker_update(face_tracker[j], detections, kcf,
                                    FaceTrack_next_id)} :
          /\ Len(r.tracks) <= MaxTracks
          /\ face_tracker' = [face_tracker EXCEPT ![j] = r.tracks]
          /\ FaceTrack_next_id' = r.next_id
    /\ tracker_updates' = tracker_updates + 1
    /\ UNCHANGED <<active_tasks, processing_queue, user_cooldowns, user_modes,
                   pending_voice, now, tasks, temp_dirs, submits, users_seen,
                   delivered>>

\* blur_faces_in_video leaves its frame loop and returns
TrackerEnd(j) ==
    /\ j \in DOMAIN face_tracker
    /\ face_tracker' = DictDel(face_tracker, j)
    /\ UNCHANGED <<FaceTrack_next_id, tracker_updates>>
    /\ UNCHANGED <<active_tasks, processing_queue, user_cooldowns, user_modes,
                   pending_voice, now, tasks, temp_dirs, submits, users_seen,
                   delivered>>

Next ==
    \/ \E u \in Users, size \in ImageSizes, dim_ok \in BOOLEAN :
          HandlePhoto(u, size, dim_ok)
    \/ \E u \in Users, size \in ImageSizes,
          ftype \in {"document_photo", "document_video", "unknown"} :
          HandleDocument(u, size, ftype)
    \/ \E u \in Users, size \in VideoSizes, d \in Durations :
          HandleVideo(u, size, d)
    \/ \E u \in Users : VoiceLevelCallback(u)
    \/ \E t \in Tids, sent \in BOOLEAN : ImageQueueReply(t, sent)
    \/ \E t \in Tids, sent \in BOOLEAN : ImageRegister(t, sent)
    \/ \E t \in Tids, outcome \in {"ok", "fail", "exc"} :
          ImageFinish(t, outcome)
    \/ \E t \in Tids, sent \in BOOLEAN : VideoRegister(t, sent)
    \/ \E t \in Tids, ok \in BOOLEAN : VideoDownload(t, ok)
    \/ \E t \in Tids, opened \in BOOLEAN : BlurOpen(t, opened)
    \/ \E t \in Tids : BlurPoll(t)
    \/ \E t \in Tids, got \in BOOLEAN : BlurRead(t, got)
    \/ \E t \in Tids, raises \in BOOLEAN : BlurFrame(t, raises)
    \/ \E t \in Tids, remuxed \in BOOLEAN : BlurTranscode(t, remuxed)
    \/ \E t \in Tids : VoicePoll(t)
    \/ \E t \in Tids, rc_ok \in BOOLEAN : VoiceFfmpeg(t, rc_ok)
    \/ \E t \in Tids : VoicePost(t)
    \/ \E t \in Tids, sent \in {"all", "result", "none"} :
          VideoFinish(t, sent)
    \/ \E t \in Tids : NotifyNextInQueue(t)
    \/ \E t \in Tids, sent \in BOOLEAN : TriggerNextQueuedJob(t, sent)
    \/ \E u \in Users : StopCommand(u)
    \/ \E u \in Users, m \in {"face", "voice"} : ModeCallback(u, m)
    \/ Tick

Spec == Init /\ [][Next]_vars

\* the image handlers, the queue and the promotions
NextQueue ==
    \/ \E u \in Users, size \in ImageSizes, dim_ok \in BOOLEAN :
          HandlePhoto(u, size, dim_ok)
    \/ \E u \in Users, size \in ImageSizes,
          ftype \in {"document_photo", "document_video", "unknown"} :
          HandleDocument(u, size, ftype)
    \/ \E t \in Tids, sent \in BOOLEAN : ImageQueueReply(t, sent)
    \/ \E t \in Tids, sent \in BOOLEAN : ImageRegister(t, sent)
    \/ \E t \in Tids, outcome \in {"ok", "fail", "exc"} :
          ImageFinish(t, outcome)
    \/ \E t \in Tids : NotifyNextInQueue(t)
    \/ \E t \in Tids, sent \in BOOLEAN : TriggerNextQueuedJob(t, sent)
    \/ \E u \in Users : StopCommand(u)

SpecQueue == InitQueue /\ [][NextQueue]_vars

\* the video handlers and their pipelines
NextVideo ==
    \/ \E u \in Users, size \in VideoSizes, d \in Durations :
          HandleVideo(u, size, d)
    \/ \E u \in Users : VoiceLevelCallback(u)
    \/ \E t \in Tids, sent \in BOOLEAN : VideoRegister(t, sent)
    \/ \E t \in Tids, ok \in BOOLEAN : VideoDownload(t, ok)
    \/ \E t \in Tids, opened \in BOOLEAN : BlurOpen(t, opened)
    \/ \E t \in Tids : BlurPoll(t)
    \/ \E t \in Tids, got \in BOOLEAN : BlurRead(t, got)
    \/ \E t \in Tids, raises \in BOOLEAN : BlurFrame(t, raises)
    \/ \E t \in Tids, remuxed \in BOOLEAN : BlurTranscode(t, remuxed)
    \/ \E t \in Tids : VoicePoll(t)
    \/ \E t \in Tids, rc_ok \in BOOLEAN : VoiceFfmpeg(t, rc_ok)
    \/ \E t \in Tids : VoicePost(t)
    \/ \E t \in Tids, sent \in {"all", "result", "none"} :
          VideoFinish(t, sent)
    \/ \E u \in Users : StopCommand(u)
    \/ \E u \in Users, m \in {"face", "voice"} : ModeCallback(u, m)
    \/ Tick

SpecVideo == InitVideo /\ [][NextVideo]_vars

\* the tracks a FaceTracker can hold between two frames: none, one track
\* that has missed any number of frames, or such a track and a second one
\* created after it that is fresh or about to be dropped
SeedTracks ==
    {<<>>}
    \cup {<<[FaceTrack(0, b) EXCEPT !.frames_since_detection = k]>> :
             b \in Boxes, k \in 0..(max_frames_without_detection - 1)}
    \cup {<<[FaceTrack(0, b) EXCEPT !.frames_since_detection = k],
            [FaceTrack(1, b2) EXCEPT !.frames_since_detection = k2]>> :
             b \in Boxes, b2 \in Boxes,
             k \in {0, max_frames_without_detection - 1},
             k2 \in {0, max_frames_without_detection - 1}}

\* one pipeline thread is in the frame loop of blur_faces_in_video
InitTrack ==
    /\ active_tasks = <<>>
    /\ processing_queue = <<>>
    /\ user_cooldowns = <<>>
    /\ user_modes = [u \in Users |-> "face"]
    /\ pending_voice = {}
    /\ now = 0
    /\ tasks = [t \in Tids |-> Idle]
    /\ temp_dirs = <<>>
    /\ submits = 0
    /\ users_seen = 0
    /\ delivered = [u \in Users |-> 0]
    /\ tracker_updates = 0
    /\ \E tracks \in SeedTracks :
          /\ face_tracker = [j \in {1} |-> tracks]
          /\ FaceTrack_next_id = Len(tracks)

\* the face tracker of one video pipeline thread
NextTrack ==
    \/ TrackerStart(1)
    \/ \E detections \in DetectionLists, kcf \in KcfLists :
          TrackerUpdate(1, detections, kcf)
    \/ TrackerEnd(1)

SpecTrack == InitTrack /\ [][NextTrack]_vars

\* the face trackers of the video pipeline threads that can run at the
\* same time
NextTrackJobs ==
    \/ \E j \in TrackJobs : TrackerStart(j)
    \/ \E j \in TrackJobs, detections \in DetectionLists, kcf \in KcfLists :
          TrackerUpdate(j, detections, kcf)
    \/ \E j \in TrackJobs : TrackerEnd(j)

SpecTrackJobs == InitTrack /\ [][NextTrackJobs]_vars

\* utils/queue_manager.py on its own: the callers of add_to_queue and
\* remove_from_queue (handlers, promotion, eviction, /stop) reach the queue
\* only through these two functions, here called in any order with any
\* arguments
QueuePayloads == {<<4, "photo", FALSE>>, <<7, "document_photo", TRUE>>}

InitManager ==
    /\ InitCommon
    /\ \E n \in 0..MAX_CONCURRENT_JOBS :
          /\ active_tasks = [u \in 1..n |-> PhotoRecord]
          /\ temp_dirs = [t \in 1..n |-> {}]
          /\ tasks = [t \in Tids |-> IF t <= n THEN RunningPhoto(t) ELSE Idle]
    /\ processing_queue = <<>>
    /\ user_modes = [u \in Users |-> "face"]
    /\ pending_voice = {}
    /\ users_seen = NumUsers

AddToQueue(u, size, ftype, msg) ==
    /\ processing_queue' = add_to_queue(processing_queue, u, size, ftype, msg)
    /\ Len(processing_queue') <= NumUsers
    /\ UNCHANGED <<active_tasks, user_cooldowns, user_modes, pending_voice,
                   now, tasks, temp_dirs, submits, users_seen, delivered,
                   tracking>>

RemoveFromQueue(u) ==
    /\ processing_queue' = remove_from_queue(processing_queue, u)
    /\ UNCHANGED <<active_tasks, user_cooldowns, user_modes, pending_voice,
                   now, tasks, temp_dirs, submits, users_seen, delivered,
                   tracking>>

NextManager ==
    \/ \E u \in Users, p \in QueuePayloads : AddToQueue(u, p[1], p[2], p[3])
    \/ \E u \in Users : RemoveFromQueue(u)

SpecManager == InitManager /\ [][NextManager]_vars

TypeOK ==
    /\ DOMAIN active_tasks \subseteq Users
    /\ DOMAIN user_cooldowns \subseteq Users
    /\ DOMAIN temp_dirs \subseteq Tids
    /\ submits \in 0..MaxSubmits
    /\ FaceTrack_next_id \in Nat
    /\ tracker_updates \in 0..MaxUpdates

\* =================================================================== claims
\* a coroutine of user u that has passed the gate of its handler in this step
Admitted(u) ==
    \E t \in Tids : /\ tasks[t].kind = "idle"
                     /\ tasks'[t].user = u
                     /\ tasks'[t].pc = "proc_msg"

\* the gate the admission of a submission of user u is said to depend on
GateOpen(u) ==
    /\ ~is_server_busy(active_tasks)
    /\ ~is_on_cooldown(user_cooldowns, u, now)
    /\ u \notin DOMAIN active_tasks

\* a submission of user u that no limit and no mode rules out
ValidSubmission(u) ==
    /\ user_modes[u] = "face"
    /\ \/ \E size \in ImageSizes :
             /\ size <= MAX_IMAGE_SIZE_MB
             /\ \/ HandlePhoto(u, size, TRUE)
                \/ HandleDocument(u, size, "document_photo")
       \/ \E size \in VideoSizes, d \in Durations :
             /\ size <= MAX_VIDEO_SIZE_MB
             /\ d <= MAX_VIDEO_DURATION_SECONDS
             /\ HandleVideo(u, size, d)

\* user a is queued ahead of user b
Ahead(q, a, b) ==
    /\ is_in_queue(q, a)
    /\ is_in_queue(q, b)
    /\ get_queue_position(q, a) < get_queue_position(q, b)

\* C1: in every reachable state the number of active jobs is at most
\* MAX_CONCURRENT_JOBS
C1_ActiveJobsWithinLimit ==
    get_active_job_count(active_tasks) <= MAX_CONCURRENT_JOBS

\* C2: in every reachable state no user is both in the active set and in
\* the wait queue
C2_ActiveOrQueuedNotBoth ==
    \A u \in Users :
        ~(u \in DOMAIN active_tasks /\ is_in_queue(processing_queue, u))

\* C3: a submission within the limits starts a job if and only if, when it
\* arrives, the server is not busy, the user is not on cooldown and the user
\* has no active job
C3_AdmittedIffGateOpen ==
    [][\A u \in Users : ValidSubmission(u) => (Admitted(u) <=> GateOpen(u))]_vars

\* C4: a user queued behind another user does not become active while the
\* user ahead is still queued and has not become active
C4_FifoAdmission ==
    [][\A a, b \in Users :
          (/\ Ahead(processing_queue, a, b)
           /\ a \notin DOMAIN active_tasks
           /\ b \notin DOMAIN active_tasks
           /\ b \in DOMAIN active_tasks')
          => a \in DOMAIN active_tasks']_vars

\* the frame loop of blur_faces_in_video
InFrameLoop(task) == task.kind = "video" /\ task.pc \in {"poll", "read", "frame"}

\* C5: once the cancellation flag of a video-face job is set while its frame
\* loop runs, the loop is left only through the poll that reads the flag,
\* and the pipeline returns was_cancelled = true
C5_CancelObservedAtNextPoll ==
    [][\A t \in Tids :
          (/\ InFrameLoop(tasks[t])
           /\ tasks[t].cancel_event
           /\ ~InFrameLoop(tasks'[t])
           /\ ~tasks'[t].raised)
          => (tasks'[t].pc = "returned" /\ tasks'[t].was_cancelled)]_vars

\* a video job whose pipeline has returned Cancelled
ReturnedCancelled(task) ==
    /\ task.kind \in {"video", "voice"}
    /\ task.pc = "returned"
    /\ task.was_cancelled

\* C6: when a video job terminates Cancelled its workspace holds neither
\* the partial output nor an output file, no result is sent and no cooldown
\* is set
C6_CancelledLeavesNothing ==
    [][\A t \in Tids :
          (ReturnedCancelled(tasks[t]) /\ tasks'[t].kind = "idle")
          => /\ temp_dirs[t] \cap {"temp_output", "output"} = {}
             /\ delivered' = delivered
             /\ user_cooldowns' = user_cooldowns]_vars

\* a frame loop has been left through the poll that read the flag
C6_Witness ==
    \E t \in Tids : /\ ReturnedCancelled(tasks[t])
                     /\ tasks[t].kind = "video"
                     /\ temp_dirs[t] = {"input"}

\* a job between its registration in active_tasks and its finally block
Registered(task) ==
    \/ task.kind \in {"photo", "document"} /\ task.pc = "running"
    \/ /\ task.kind \in {"video", "voice"}
       /\ task.pc \in {"download", "blur_open", "poll", "read", "frame",
                        "transcode", "voice_poll", "voice_ffmpeg",
                        "voice_post", "returned"}

\* C7: the step that ends a job, on whatever path, leaves no record of its
\* user in the active set and no workspace of the job on disk
C7_ExitRemovesRecordAndWorkspace ==
    [][\A t \in Tids :
          (Registered(tasks[t]) /\ ~Registered(tasks'[t]))
          => /\ tasks[t].user \notin DOMAIN active_tasks'
             /\ t \notin DOMAIN temp_dirs']_vars

\* a video job has ended with its result sent
C7_Witness ==
    \E u \in Users : /\ delivered[u] > 0
                      /\ u \notin DOMAIN active_tasks
                      /\ temp_dirs = <<>>

\* C8: when the promotion that follows a job's end dispatches the head of
\* the queue, the head leaves the queue and a job of that user is started
C8_TerminationPromotesHead ==
    [][\A t \in Tids :
          (/\ TriggerNextQueuedJob(t, TRUE)
           /\ is_in_queue(processing_queue, tasks[t].entry.user_id))
          => \E t2 \in Tids : /\ tasks'[t2].user = tasks[t].entry.user_id
                               /\ tasks'[t2].queued]_vars

Submission(u) ==
    \/ \E size \in ImageSizes, dim_ok \in BOOLEAN : HandlePhoto(u, size, dim_ok)
    \/ \E size \in ImageSizes,
          ftype \in {"document_photo", "document_video", "unknown"} :
          HandleDocument(u, size, ftype)
    \/ \E size \in VideoSizes, d \in Durations : HandleVideo(u, size, d)

\* C10: a submission of a user who is on cooldown is neither started nor
\* queued
C10_CooldownRejects ==
    [][\A u \in Users :
          (Submission(u) /\ is_on_cooldown(user_cooldowns, u, now))
          => (~Admitted(u) /\ processing_queue' = processing_queue)]_vars

\* ------------------------------------------------------------ the tracker
\* track k of old is still in the set after an update with matching m: it
\* was matched, or it has missed fewer than max_frames_without_detection
\* frames
Survives(old, m, k) ==
    \/ m[k] > 0
    \/ old[k].frames_since_detection + 1 < max_frames_without_detection

\* the place of track i of old in the list the update leaves: the tracks
\* keep their order and new tracks are appended
PosAfter(old, m, i) == Cardinality({k \in 1..i : Survives(old, m, k)})

\* the number of detections no track was matched to
Unmatched(detections, m) ==
    Len(detections) - Cardinality({k \in 1..Len(m) : m[k] > 0})

C11_Update(old, detections, m, new) ==
    /\ \A k \in 1..Len(new) :
          new[k].frames_since_detection < max_frames_without_detection
    /\ Len(new) = PosAfter(old, m, Len(old)) + Unmatched(detections, m)
    /\ \A i \in 1..Len(old) :
          (m[i] = 0 /\ old[i].frames_since_detection + 1
                          < max_frames_without_detection)
          => LET p == PosAfter(old, m, i) IN
             /\ p \in 1..Len(new)
             /\ new[p].id = old[i].id
             /\ new[p].frames_since_detection
                   = old[i].frames_since_detection + 1
             /\ p \in DOMAIN get_blur_regions(new)

\* C11: after every FaceTracker.update, a track that was matched to no
\* detection is still in the track set (and in get_blur_regions) when its
\* missed frames are below 20, and is gone from the set in the update where
\* they reach 20: a track is dropped at the 20th consecutive miss, not
\* before
C11_MissedTrackLifetime ==
    \A j \in DOMAIN face_tracker, detections \in DetectionLists,
       kcf \in KcfLists :
       Len(kcf) = Len(face_tracker[j])
       => \A m \in {Matching(face_tracker[j], detections, kcf)} :
          \A new \in {ApplyMatching(
                         UpdateWithTrackers(face_tracker[j], kcf),
                         detections, m, FaceTrack_next_id).tracks} :
             C11_Update(face_tracker[j], detections, m, new)

\* an update has dropped the only track of a tracker
C11_Witness ==
    /\ 1 \in DOMAIN face_tracker
    /\ face_tracker[1] = <<>>
    /\ FaceTrack_next_id = 1
    /\ tracker_updates >= 1

C12_Update(old, kcf, m, new) ==
    \A i \in 1..Len(old) :
       /\ update_with_tracker(old[i], kcf[i]).frames_since_detection
             = old[i].frames_since_detection + 1
       /\ Survives(old, m, i)
          => LET p == PosAfter(old, m, i) IN
             /\ p \in 1..Len(new)
             /\ new[p].frames_since_detection
                   = IF m[i] > 0 THEN 0
                     ELSE old[i].frames_since_detection + 1
             /\ new[p].frames_since_detection = 0 => m[i] > 0

\* C12: in every FaceTracker.update a track that is not matched ends with
\* missed frames one higher than before and a track that is matched ends
\* with missed frames 0; a track that was there before the update has 0
\* missed frames after it only if it was matched in it
C12_MissedFramesStep ==
    \A j \in DOMAIN face_tracker, detections \in DetectionLists,
       kcf \in KcfLists :
       Len(kcf) = Len(face_tracker[j])
       => \A m \in {Matching(face_tracker[j], detections, kcf)} :
          \A new \in {ApplyMatching(
                         UpdateWithTrackers(face_tracker[j], kcf),
                         detections, m, FaceTrack_next_id).tracks} :
             C12_Update(face_tracker[j], kcf, m, new)

\* an update has matched the first track of a tracker and missed the second
C12_Witness ==
    \E j \in DOMAIN face_tracker :
       /\ tracker_updates >= 1
       /\ Len(face_tracker[j]) = 2
       /\ face_tracker[j][1].frames_since_detection = 0
       /\ face_tracker[j][2].frames_since_detection = 1

\* a / b >= c / d for the fractions calculate_iou returns
IouAtLeast(x, y) == x[1] * y[2] >= y[1] * x[2]

C13_Update(old, detections, kcf, m, new) ==
    \A i \in 1..Len(old) :
       LET bbox == IF kcf[i] = <<>> THEN old[i].bbox ELSE kcf[i]
           claimed == {m[k] : k \in 1..(i - 1)}
           overlapping ==
              {d \in (1..Len(detections)) \ claimed :
                  iou_reaches_threshold(calculate_iou(bbox, detections[d]))}
       IN overlapping # {}
          => /\ m[i] \in overlapping
             /\ \A d \in overlapping :
                   IouAtLeast(calculate_iou(bbox, detections[m[i]]),
                              calculate_iou(bbox, detections[d]))
             /\ new[PosAfter(old, m, i)].bbox = detections[m[i]]

\* C13: in every FaceTracker.update a track for which some detection not
\* yet claimed has IoU >= 0.15 with its box is matched to the unclaimed
\* detection of highest IoU, never to one that qualifies only by the
\* distance of its centre
C13_IouBeforeDistance ==
    \A j \in DOMAIN face_tracker, detections \in DetectionLists,
       kcf \in KcfLists :
       Len(kcf) = Len(face_tracker[j])
       => \A m \in {Matching(face_tracker[j], detections, kcf)} :
          \A new \in {ApplyMatching(
                         UpdateWithTrackers(face_tracker[j], kcf),
                         detections, m, FaceTrack_next_id).tracks} :
             C13_Update(face_tracker[j], detections, kcf, m, new)

\* the track at (20,20,10,10) has taken the detection at (21,20,10,10) and
\* the small detection at its centre has become a track of its own
C13_Witness ==
    /\ tracker_updates >= 1
    /\ 1 \in DOMAIN face_tracker
    /\ Len(face_tracker[1]) = 2
    /\ face_tracker[1][1] = FaceTrack(0, Box(21, 20, 10, 10))
    /\ face_tracker[1][2] = FaceTrack(1, Box(24, 24, 2, 2))

\* C14: within one job (one blur_faces_in_video call) every track has an id
\* distinct from the ids of all other tracks of that job, also while
\* another video job is running
C14_TrackIdsUniquePerJob ==
    \A j \in DOMAIN face_tracker :
       \A a, b \in 1..Len(face_tracker[j]) :
          a # b => face_tracker[j][a].id # face_tracker[j][b].id


\* C15: the wait queue never holds two entries of the same user, and
\* add_to_queue for a user who is queued puts the new payload into that
\* user's entry and appends nothing
QueuedUsers(q) == {q[i].user_id : i \in 1..Len(q)}

C15_Readd(q, u, size, ftype) ==
    \A q2 \in {add_to_queue(q, u, size, ftype, FALSE)} :
       /\ Len(q2) = Len(q)
       /\ \A i \in 1..Len(q) :
             /\ q2[i].user_id = q[i].user_id
             /\ q[i].user_id = u => /\ q2[i].file_size_mb = size
                                    /\ q2[i].file_type = ftype

C15_OneEntryPerUser ==
    /\ \A a, b \in 1..Len(processing_queue) :
          a # b => processing_queue[a].user_id # processing_queue[b].user_id
    /\ \A u \in QueuedUsers(processing_queue), p \in QueuePayloads :
          C15_Readd(processing_queue, u, p[1], p[2])

\* user 3 waits ahead of user 4 with the message id of a first submission
\* and the payload of a second one, which came without a message id
C15_Witness ==
    /\ Len(processing_queue) = 2
    /\ processing_queue[1] = NewEntry(3, 4, "photo", TRUE)
    /\ processing_queue[2].user_id = 4


\* C16: add_to_queue for a user who has an entry changes neither the length
\* of the queue nor the order of its entries nor any other user's entry, the
\* user keeps the rank, and the rank is what the call returns
C16_Readd(q, u, size, ftype, msg) ==
    \A q2 \in {add_to_queue(q, u, size, ftype, msg)} :
       \A p \in {get_queue_position(q, u)} :
          /\ Len(q2) = Len(q)
          /\ \A i \in 1..Len(q) : /\ q2[i].user_id = q[i].user_id
                                   /\ i # p => q2[i] = q[i]
          /\ get_queue_position(q2, u) = p
          /\ add_to_queue_position(q, u) = p

C16_ResubmitKeepsRank ==
    \A u \in QueuedUsers(processing_queue), p \in QueuePayloads :
       C16_Readd(processing_queue, u, p[1], p[2], p[3])

\* user 2 waits between users 1 and 3 and has submitted twice
C16_Witness ==
    /\ Len(processing_queue) = 3
    /\ processing_queue[1].user_id = 1
    /\ processing_queue[2] = NewEntry(2, 4, "photo", TRUE)
    /\ processing_queue[3].user_id = 3


\* C17: while MAX_CONCURRENT_JOBS jobs are active, a valid submission of a
\* user who has no job, no cooldown and no queue entry, image or video, is
\* not admitted and leaves the user at the end of the queue, at position
\* len(queue) + 1
C17_BusySubmissionQueued ==
    [][\A u \in Users :
          (/\ ValidSubmission(u)
           /\ get_active_job_count(active_tasks) = MAX_CONCURRENT_JOBS
           /\ u \notin DOMAIN active_tasks
           /\ ~is_on_cooldown(user_cooldowns, u, now)
           /\ ~is_in_queue(processing_queue, u))
          => (/\ ~Admitted(u)
              /\ active_tasks' = active_tasks
              /\ Len(processing_queue') = Len(processing_queue) + 1
              /\ get_queue_position(processing_queue', u)
                    = Len(processing_queue) + 1)]_vars


\* C18: for a position p >= 1 estimate_wait_time is the integer part of
\* active_job_count * T / 2 + (p - 1) * T, where T is the size times 2.5
\* seconds per MB; for p <= 0 it is 0; with two active jobs the value for
\* position 1 is the integer part of T
C18_Eta(at, p, size) ==
    \A r \in {estimate_wait_time(at, p, size)} :
       \A n \in {get_active_job_count(at)} :
          /\ p <= 0 => r = 0
          /\ p >= 1 =>
                \* r <= n * T / 2 + (p - 1) * T < r + 1, times 4
                /\ 4 * r <= n * 5 * size + (p - 1) * 10 * size
                /\ n * 5 * size + (p - 1) * 10 * size < 4 * r + 4
          /\ (p = 1 /\ n = 2) => (2 * r <= 5 * size /\ 5 * size < 2 * r + 2)

C18_WaitEstimate ==
    \A p \in (-1)..(Len(processing_queue) + 1),
       size \in {x[1] : x \in QueuePayloads} :
       C18_Eta(active_tasks, p, size)

\* two jobs are active and the head of the queue has a file of 7 MB: its
\* estimate is int(17.5) = 17 seconds
C18_Witness ==
    /\ get_active_job_count(active_tasks) = 2
    /\ Len(processing_queue) >= 2
    /\ processing_queue[1].file_size_mb = 7
    /\ estimate_wait_time(active_tasks, 1, processing_queue[1].file_size_mb) = 17
    /\ estimate_wait_time(active_tasks, 2, processing_queue[2].file_size_mb)
          = 10 + (5 * processing_queue[2].file_size_mb) \div 2


\* C19: remove_from_queue(u) for a queued user u takes out u's entry and no
\* other: the users behind u move up by one position, the users ahead of u
\* keep theirs, and the entries that remain are in the order they had; for
\* a user who is not queued it returns False and the queue is as before
C19_Remove(q, u) ==
    \A q2 \in {remove_from_queue(q, u)} :
       \A p \in {get_queue_position(q, u)} :
          /\ p > 0 =>
                /\ Len(q2) = Len(q) - 1
                /\ ~is_in_queue(q2, u)
                /\ \A i \in 1..Len(q) :
                      /\ i < p => /\ q2[i] = q[i]
                                  /\ get_queue_position(q2, q[i].user_id) = i
                      /\ i > p => /\ q2[i - 1] = q[i]
                                  /\ get_queue_position(q2, q[i].user_id)
                                        = i - 1
          /\ p = 0 => /\ ~remove_from_queue_result(q, u)
                      /\ q2 = q

C19_RemoveCompresses ==
    \A u \in Users : C19_Remove(processing_queue, u)

\* user 2 waits between users 4 and 1: taking user 2 out leaves user 4
\* first and moves user 1 up to the second place
C19_Witness ==
    /\ Len(processing_queue) = 3
    /\ processing_queue[1].user_id = 4
    /\ processing_queue[2].user_id = 2
    /\ processing_queue[3].user_id = 1
    /\ remove_from_queue_result(processing_queue, 2)
    /\ remove_from_queue(processing_queue, 2)
          = <<processing_queue[1], processing_queue[3]>>


\* C20: is_on_cooldown(u) is true exactly when u has a cooldown entry and
\* the time is before its expiry; from the expiry instant on it is false and
\* the entry is deleted; without an entry it is false and the map is as
\* before
C20_Check(cd, u, t) ==
    \A r \in {is_on_cooldown(cd, u, t)} :
       \A cd2 \in {is_on_cooldown_map(cd, u, t)} :
          /\ r <=> (u \in DOMAIN cd /\ t < cd[u])
          /\ (u \in DOMAIN cd /\ t >= cd[u]) =>
                /\ ~r
                /\ DOMAIN cd2 = (DOMAIN cd) \ {u}
                /\ \A v \in DOMAIN cd2 : cd2[v] = cd[v]
          /\ (u \in DOMAIN cd /\ t < cd[u]) => cd2 = cd
          /\ u \notin DOMAIN cd => (~r /\ cd2 = cd)

C20_CooldownExpiry ==
    \A u \in Users :
       \A t \in {now} \cup (IF u \in DOMAIN user_cooldowns
                             THEN {user_cooldowns[u] - 1, user_cooldowns[u],
                                   user_cooldowns[u] + 1}
                             ELSE {}) :
          C20_Check(user_cooldowns, u, t)

\* user 1 got a processed video at time 0 and sent the next one at the
\* expiry instant: the entry is gone and the video has passed the gate
C20_Witness ==
    /\ now = COOLDOWN_SECONDS
    /\ delivered[1] > 0
    /\ 1 \notin DOMAIN user_cooldowns
    /\ \E t \in Tids : /\ tasks[t].user = 1
                        /\ tasks[t].kind = "video"
                        /\ tasks[t].pc = "proc_msg"


\* C21: a step creates or changes the cooldown entry of a user only when a
\* job of that user ends with success and its result has been sent, and the
\* entry then expires COOLDOWN_SECONDS from now; a job that ends cancelled
\* or failed, a rejected submission, an enqueue and a withdrawal leave the
\* entries as they are or delete them
CooldownWritten(u) ==
    /\ u \in DOMAIN user_cooldowns'
    /\ \/ u \notin DOMAIN user_cooldowns
       \/ user_cooldowns'[u] # user_cooldowns[u]

CompletedAndDelivered(u) ==
    \E t \in Tids :
       /\ tasks[t].user = u
       /\ \/ ImageFinish(t, "ok")
          \/ /\ tasks[t].kind \in {"video", "voice"}
             /\ tasks[t].pc = "returned"
             /\ tasks[t].success
             /\ ~tasks[t].was_cancelled
             /\ ~tasks[t].raised
             /\ "output" \in temp_dirs[t]
             /\ delivered'[u] = delivered[u] + 1
             /\ tasks'[t].kind = "idle"

C21_CooldownOnlyOnDelivery ==
    [][\A u \in Users :
          CooldownWritten(u)
          => (/\ CompletedAndDelivered(u)
              /\ user_cooldowns'[u] = now + COOLDOWN_SECONDS)]_vars

\* user 1 has just been sent a processed video and is on cooldown
C21_Witness ==
    /\ 1 \in DOMAIN user_cooldowns
    /\ user_cooldowns[1] = now + COOLDOWN_SECONDS
    /\ delivered[1] = 1
    /\ 1 \notin DOMAIN active_tasks


\* C22: when the turn notification to the head of the queue fails, that
\* user leaves the queue, no job is started for them, the other entries keep
\* their order, and the users behind are not left blocked: while the queue
\* is not empty and a slot is free, a promotion is still to come (a
\* promotion is in flight, or an image job whose end starts one)
PromotionToCome(ts) ==
    \E t \in Tids :
       \/ ts[t].kind = "trigger"
       \/ /\ ts[t].kind \in {"photo", "document"}
          /\ ts[t].pc \in {"proc_msg", "running"}

C22_FailedNotificationEvicts ==
    [][\A t \in Tids :
          (/\ tasks[t].kind = "trigger"
           /\ tasks[t].pc = "t_turn"
           /\ TriggerNextQueuedJob(t, FALSE))
          => \A u \in {tasks[t].entry.user_id} :
                /\ ~is_in_queue(processing_queue', u)
                /\ ~Admitted(u)
                /\ active_tasks' = active_tasks
                /\ processing_queue' = remove_from_queue(processing_queue, u)
                /\ (processing_queue' # <<>> /\ ~is_server_busy(active_tasks'))
                      => PromotionToCome(tasks')]_vars


\* C23: /stop of a user who has an active job of any kind and no queue
\* entry sets the cancellation flag of that job and changes nothing else:
\* the job record stays, the workspace stays, the queue and the cooldowns
\* are as before
C23_StopSetsFlagOnly ==
    [][\A u \in Users :
          (/\ StopCommand(u)
           /\ u \in DOMAIN active_tasks
           /\ ~is_in_queue(processing_queue, u))
          => (/\ active_tasks[u].cancel_event # 0
              /\ tasks'[active_tasks[u].cancel_event].cancel_event
              /\ active_tasks' = active_tasks
              /\ temp_dirs' = temp_dirs
              /\ processing_queue' = processing_queue
              /\ user_cooldowns' = user_cooldowns)]_vars


\* C24: /stop of a user who has neither an active job nor a queue entry
\* changes nothing: the active set, the queue, the cooldowns and the
\* cancellation flag of every job are as before
C24_StopWithNothingIsNoOp ==
    [][\A u \in Users :
          (/\ StopCommand(u)
           /\ u \notin DOMAIN active_tasks
           /\ ~is_in_queue(processing_queue, u))
          => (/\ active_tasks' = active_tasks
              /\ processing_queue' = processing_queue
              /\ user_cooldowns' = user_cooldowns
              /\ temp_dirs' = temp_dirs
              /\ \A t \in Tids :
                    tasks'[t].cancel_event = tasks[t].cancel_event)]_vars

\* user 2, who has sent nothing before, has sent the one update so far
\* while the video job of user 1 is in its frame loop with its flag not set
C24_Witness ==
    /\ submits = 1
    /\ users_seen = 2
    /\ DOMAIN active_tasks = {1}
    /\ active_tasks[1].cancel_event # 0
    /\ ~tasks[active_tasks[1].cancel_event].cancel_event
    /\ tasks[active_tasks[1].cancel_event].pc = "poll"
    /\ \A t \in Tids : tasks[t].user # 2
    /\ processing_queue = <<>>


\* C25: a submission over the size limit (for a video also over the
\* duration limit) is rejected on the spot, busy server or not: it leaves no
\* queue entry, starts no job and writes no cooldown
OverLimitSubmission(u) ==
    \/ \E size \in ImageSizes :
          /\ size > MAX_IMAGE_SIZE_MB
          /\ \/ HandlePhoto(u, size, TRUE)
             \/ HandleDocument(u, size, "document_photo")
    \/ \E size \in VideoSizes, d \in Durations :
          /\ size > MAX_VIDEO_SIZE_MB \/ d > MAX_VIDEO_DURATION_SECONDS
          /\ HandleVideo(u, size, d)

C25_OverLimitNeverQueued ==
    [][\A u \in Users :
          OverLimitSubmission(u)
          => (/\ processing_queue' = processing_queue
              /\ ~Admitted(u)
              /\ active_tasks' = active_tasks
              /\ ~CooldownWritten(u))]_vars


\* C26: when detection, association or rendering raises on one frame of a
\* video job, the frame loop goes on with the next frame and the job is not
\* marked as failed by an exception
C26_FrameErrorSkipsFrame ==
    [][\A t \in Tids :
          (/\ tasks[t].kind = "video"
           /\ tasks[t].pc = "frame"
           /\ BlurFrame(t, TRUE))
          => (/\ tasks'[t].pc = "poll"
              /\ ~tasks'[t].raised)]_vars


\* C27: when the frame loop of a video job has ended normally and the
\* re-mux fails or ffmpeg is missing, the pipeline still returns success,
\* not cancelled, with the video-only file as the output; and a pipeline
\* that returned success with its output is answered with the result, not
\* with a failure
C27_TranscodeFailureStillSucceeds ==
    [][\A t \in Tids :
          /\ (tasks[t].pc = "transcode" /\ BlurTranscode(t, FALSE))
             => (/\ tasks'[t].pc = "returned"
                 /\ tasks'[t].success
                 /\ ~tasks'[t].was_cancelled
                 /\ ~tasks'[t].raised
                 /\ "output" \in temp_dirs'[t]
                 /\ "temp_output" \notin temp_dirs'[t])
          /\ (/\ tasks[t].kind = "video"
              /\ tasks[t].pc = "returned"
              /\ tasks[t].success
              /\ VideoFinish(t, "all"))
             => delivered'[tasks[t].user] = delivered[tasks[t].user] + 1]_vars

\* the pipeline of user 1's video job has returned after its transcode step
C27_Witness ==
    \E t \in Tids : /\ tasks[t].kind = "video"
                     /\ tasks[t].user = 1
                     /\ tasks[t].pc = "returned"
                     /\ tasks[t].success
                     /\ ~tasks[t].was_cancelled
                     /\ temp_dirs[t] = {"input", "output"}

\* ---- calculate_iou on its own (utils/tracking.py:9-30) ----

\* the integer boxes calculate_iou is given: every corner and every width
\* and height of a small grid, so that pairs overlap, touch, lie apart, nest
\* and have no area
IouBoxes == {Box(x, y, w, h) : x \in 0..2, y \in 0..2, w \in 0..2, h \in 0..2}

\* a FaceTracker holding one track, of any box
InitIou ==
    /\ active_tasks = <<>>
    /\ processing_queue = <<>>
    /\ user_cooldowns = <<>>
    /\ user_modes = [u \in Users |-> "face"]
    /\ pending_voice = {}
    /\ now = 0
    /\ tasks = [t \in Tids |-> Idle]
    /\ temp_dirs = <<>>
    /\ submits = 0
    /\ users_seen = 0
    /\ delivered = [u \in Users |-> 0]
    /\ tracker_updates = 0
    /\ \E box1 \in IouBoxes :
          /\ face_tracker = [j \in {1} |-> <<FaceTrack(0, box1)>>]
          /\ FaceTrack_next_id = 1

\* FaceTracker.update with one detection while one track is held and its KCF
\* tracker reports nothing: calculate_iou(track.bbox, det_bbox) is evaluated
\* once
IouUpdate(box2) ==
    /\ 1 \in DOMAIN face_tracker
    /\ Len(face_tracker[1]) = 1
    /\ TrackerUpdate(1, <<box2>>, <<<<>>>>)

NextIou == \E box2 \in IouBoxes : IouUpdate(box2)

SpecIou == InitIou /\ [][NextIou]_vars

\* box1 and box2 share no interior point: they lie apart or only touch
NoOverlap(box1, box2) ==
    \/ box1[1] + box1[3] <= box2[1]
    \/ box2[1] + box2[3] <= box1[1]
    \/ box1[2] + box1[4] <= box2[2]
    \/ box2[2] + box2[4] <= box1[2]

\* a box without area
Degenerate(box) == box[3] = 0 \/ box[4] = 0

\* the boxes held by the tracks of the trackers
TrackedBoxes ==
    UNION {{face_tracker[j][i].bbox : i \in 1..Len(face_tracker[j])} :
              j \in DOMAIN face_tracker}

\* C28: for every box b held by a track and every box a of the grid:
\* calculate_iou(b, b) is 1 when b has positive width and height;
\* calculate_iou(a, b) is 0 when a and b lie apart or only touch, or when
\* one of them has no area; and calculate_iou(a, b) = calculate_iou(b, a).
C28_IouAlgebra ==
    \A b \in TrackedBoxes :
       /\ (b[3] > 0 /\ b[4] > 0)
          => \A iou \in {calculate_iou(b, b)} : iou[1] = iou[2] /\ iou[2] > 0
       /\ \A a \in IouBoxes :
             /\ (NoOverlap(a, b) \/ Degenerate(a) \/ Degenerate(b))
                => /\ calculate_iou(a, b)[1] = 0
                   /\ calculate_iou(b, a)[1] = 0
             /\ calculate_iou(a, b) = calculate_iou(b, a)

\* an update has left two tracks of positive area whose boxes lie apart: the
\* detection had IoU 0 with the track and spawned a track of its own
C28_Witness ==
    /\ tracker_updates > 0
    /\ 1 \in DOMAIN face_tracker
    /\ Len(face_tracker[1]) = 2
    /\ face_tracker[1][1].bbox = Box(0, 0, 1, 1)
    /\ face_tracker[1][2].bbox = Box(2, 2, 1, 1)
    /\ calculate_iou(Box(0, 0, 1, 1), Box(2, 2, 1, 1))[1] = 0
    /\ calculate_iou(Box(2, 2, 1, 1), Box(2, 2, 1, 1)) = <<1, 1>>

\* ---- every detection is consumed once (utils/tracking.py:104-143) ----

\* the tracks of old that claimed detection d in the matching m
Claimers(m, d) == {i \in 1..Len(m) : m[i] = d}

\* the place, in the list the update leaves, of the track that holds
\* detection d: the track that claimed it, or else the track spawned for it
\* behind the surviving tracks, in the order of the unclaimed detections
PlaceOf(old, m, d) ==
    IF Claimers(m, d) # {}
    THEN PosAfter(old, m, CHOOSE i \in Claimers(m, d) : TRUE)
    ELSE PosAfter(old, m, Len(old))
         + Cardinality({e \in 1..d : Claimers(m, e) = {}})

C29_Update(old, detections, m, new, next_id) ==
    /\ \A d \in 1..Len(detections) :
          /\ Cardinality(Claimers(m, d)) <= 1
          /\ PlaceOf(old, m, d) \in 1..Len(new)
          /\ new[PlaceOf(old, m, d)].bbox = detections[d]
          /\ new[PlaceOf(old, m, d)].frames_since_detection = 0
          /\ IF Claimers(m, d) # {}
             THEN new[PlaceOf(old, m, d)].id \in {old[i].id : i \in Claimers(m, d)}
             ELSE new[PlaceOf(old, m, d)].id >= next_id
          /\ \A e \in 1..Len(detections) :
                e # d => PlaceOf(old, m, e) # PlaceOf(old, m, d)
    /\ \A i \in 1..Len(m) : m[i] \in 0..Len(detections)
    /\ Cardinality({p \in 1..Len(new) : new[p].frames_since_detection = 0})
          = Len(detections)
    /\ \A p \in 1..Len(new) :
          new[p].frames_since_detection = 0
          => \E d \in 1..Len(detections) : PlaceOf(old, m, d) = p

\* C29: after every FaceTracker.update(detections) each detection is held
\* by exactly one track, with the detection's box unchanged and missed
\* frames 0: the one track that was there before and claimed it, or else one
\* new track spawned for it; no two detections are held by the same track,
\* no detection by two tracks, and the tracks with missed frames 0 are
\* exactly these, len(detections) of them.
C29_DetectionsConsumedOnce ==
    \A j \in DOMAIN face_tracker, detections \in DetectionLists,
       kcf \in KcfLists :
       Len(kcf) = Len(face_tracker[j])
       => \A m \in {Matching(face_tracker[j], detections, kcf)} :
          \A new \in {ApplyMatching(
                         UpdateWithTrackers(face_tracker[j], kcf),
                         detections, m, FaceTrack_next_id).tracks} :
             C29_Update(face_tracker[j], detections, m, new,
                        FaceTrack_next_id)

\* an update with two detections has left the first with the track that was
\* there and has spawned a track for the second
C29_Witness ==
    /\ tracker_updates >= 1
    /\ 1 \in DOMAIN face_tracker
    /\ FaceTrack_next_id = 2
    /\ face_tracker[1] = <<FaceTrack(0, Box(20, 20, 10, 10)),
                           FaceTrack(1, Box(60, 60, 10, 10))>>

\* ---- greedy matching in list order (utils/tracking.py:108-143) ----

\* the score track.bbox gives the detection det, NoScore when det qualifies
\* neither by IoU nor by distance
ScoreOf(bbox, det) ==
    LET iou == calculate_iou(bbox, det) IN
    IF iou_reaches_threshold(iou) THEN iou_score(iou)
    ELSE IF distance_below_max(distance_score(bbox, det))
    THEN distance_score(bbox, det)
    ELSE NoScore

\* some track takes a detection that a later track scores higher
LaterScoresHigher(moved, detections, m) ==
    \E i \in 1..Len(moved), k \in 1..Len(moved) :
       /\ i < k
       /\ m[i] > 0
       /\ ScoreOf(moved[k].bbox, detections[m[i]]).kind # "none"
       /\ ScoreGreater(ScoreOf(moved[k].bbox, detections[m[i]]),
                       ScoreOf(moved[i].bbox, detections[m[i]]))

C30_Update(old, detections, kcf, m, new, next_id) ==
    LET moved == UpdateWithTrackers(old, kcf)
        kept == PosAfter(old, m, Len(old))
    IN \* the tracks that stay keep their order, new tracks come after them
       /\ \A i \in 1..Len(old) :
             Survives(old, m, i)
             => /\ new[PosAfter(old, m, i)].id = old[i].id
                /\ \A k \in 1..(i - 1) :
                      Survives(old, m, k)
                      => PosAfter(old, m, k) < PosAfter(old, m, i)
       /\ \A p \in (kept + 1)..Len(new) : new[p].id = next_id + p - kept - 1
       \* track i takes the best of the detections no earlier track has taken,
       \* whatever the later tracks would score
       /\ \A i \in 1..Len(old) :
             /\ m[i] = BestDetection(moved[i].bbox, detections,
                                     {m[k] : k \in 1..(i - 1)} \ {0},
                                     1, NoScore, 0)
             /\ \A k \in (i + 1)..Len(old) : m[i] > 0 => m[k] # m[i]
             /\ m[i] > 0
                => /\ Survives(old, m, i)
                   /\ new[PosAfter(old, m, i)].bbox = detections[m[i]]

\* C30: FaceTracker.update matches greedily in the order of the track list,
\* which is the order of creation: the tracks that stay keep their order and
\* new tracks are appended behind them; each track takes the detection that
\* is best for it among those no earlier track has taken, a detection taken
\* by an earlier track is taken by no later track, also when a later track
\* scores it higher, and the track that took it holds it after the update.
C30_GreedyInListOrder ==
    \A j \in DOMAIN face_tracker, detections \in DetectionLists,
       kcf \in KcfLists :
       Len(kcf) = Len(face_tracker[j])
       => \A m \in {Matching(face_tracker[j], detections, kcf)} :
          \A new \in {ApplyMatching(
                         UpdateWithTrackers(face_tracker[j], kcf),
                         detections, m, FaceTrack_next_id).tracks} :
             C30_Update(face_tracker[j], detections, kcf, m, new,
                        FaceTrack_next_id)

\* the older track, at (21,20,10,10), has taken the detection at
\* (20,20,10,10) although the newer track, at (20,20,10,10) itself, scores
\* it higher; the newer track has missed the frame
C30_Witness ==
    /\ tracker_updates >= 1
    /\ 1 \in DOMAIN face_tracker
    /\ face_tracker[1]
          = <<FaceTrack(0, Box(20, 20, 10, 10)),
              [FaceTrack(1, Box(20, 20, 10, 10))
                  EXCEPT !.frames_since_detection = 1]>>
    /\ LaterScoresHigher(<<FaceTrack(0, Box(21, 20, 10, 10)),
                           FaceTrack(1, Box(20, 20, 10, 10))>>,
                         <<Box(20, 20, 10, 10)>>, <<1, 0>>)

\* ---- ties between detections (utils/tracking.py:111-137) ----

\* two scores of the same value: IoU scores are 1 + n / d, distance scores
\* 1 - sqrt(n) / d; an IoU score (>= 1.15) never equals a distance score
\* (<= 1)
SameScore(a, b) ==
    /\ a.kind = b.kind
    /\ a.kind # "none"
    /\ a.off = b.off
    /\ IF a.kind = "iou" THEN a.n * b.d = b.n * a.d
       ELSE a.n * b.d * b.d = b.n * a.d * a.d

\* track i took a detection that ties with another unclaimed detection
TieFor(moved, detections, m, i) ==
    /\ m[i] > 0
    /\ \E e \in (1..Len(detections)) \ {m[k] : k \in 1..i} :
          SameScore(ScoreOf(moved[i].bbox, detections[e]),
                    ScoreOf(moved[i].bbox, detections[m[i]]))

C31_Update(old, detections, kcf, m) ==
    LET moved == UpdateWithTrackers(old, kcf) IN
    \A i \in 1..Len(old) :
       m[i] > 0
       => \A e \in (1..Len(detections)) \ {m[k] : k \in 1..i} :
             SameScore(ScoreOf(moved[i].bbox, detections[e]),
                       ScoreOf(moved[i].bbox, detections[m[i]]))
             => m[i] < e

\* C31: in every FaceTracker.update, when a track is matched to a detection
\* and another detection that no earlier track has claimed has the same
\* score for that track, the track is matched to the one of lower index in
\* the detection list.
C31_TieGoesToLowestIndex ==
    \A j \in DOMAIN face_tracker, detections \in DetectionLists,
       kcf \in KcfLists :
       Len(kcf) = Len(face_tracker[j])
       => \A m \in {Matching(face_tracker[j], detections, kcf)} :
             C31_Update(face_tracker[j], detections, kcf, m)

\* the track at (21,20,10,10) was given the detections (22,20,10,10) and
\* (20,20,10,10), of IoU 9/11 each, and has taken the first; the second has
\* become a track
C31_Witness ==
    /\ tracker_updates >= 1
    /\ 1 \in DOMAIN face_tracker
    /\ face_tracker[1] = <<FaceTrack(0, Box(22, 20, 10, 10)),
                           FaceTrack(1, Box(20, 20, 10, 10))>>
    /\ TieFor(<<FaceTrack(0, Box(21, 20, 10, 10))>>,
              <<Box(22, 20, 10, 10), Box(20, 20, 10, 10)>>, <<1>>, 1)

\* ---- failures of the visual tracker (utils/tracking.py:46-74) ----

\* some detection that no track before track i has claimed qualifies for
\* bbox by IoU or by distance
CanMatch(bbox, detections, m, i) ==
    \E d \in (1..Len(detections)) \ {m[k] : k \in 1..(i - 1)} :
       ScoreOf(bbox, detections[d]).kind # "none"

C32_Update(old, detections, kcf, m, new) ==
    LET moved == UpdateWithTrackers(old, kcf) IN
    /\ Len(moved) = Len(old)
    /\ \A i \in 1..Len(old) :
          kcf[i] = <<>>
          => \* the track keeps its box and misses one frame, like any other
             /\ moved[i].bbox = old[i].bbox
             /\ moved[i].frames_since_detection
                   = old[i].frames_since_detection + 1
             \* it is matched when a detection qualifies for its box
             /\ CanMatch(old[i].bbox, detections, m, i) <=> m[i] > 0
             \* it leaves the list only at the 20th missed frame
             /\ (\E p \in 1..Len(new) : new[p].id = old[i].id)
                   <=> (m[i] > 0 \/ old[i].frames_since_detection + 1
                                       < max_frames_without_detection)
             /\ Survives(old, m, i)
                => LET p == PosAfter(old, m, i) IN
                   /\ new[p].id = old[i].id
                   /\ new[p].bbox = IF m[i] > 0 THEN detections[m[i]]
                                    ELSE old[i].bbox
                   /\ new[p].frames_since_detection
                         = IF m[i] > 0 THEN 0
                           ELSE old[i].frames_since_detection + 1

\* C32: in every FaceTracker.update a track whose visual tracker fails (no
\* tracker after a failed initialisation, no success, or an exception)
\* keeps its box, is matched to a detection whenever one qualifies for that
\* box, and is in the list after the update unless it was not matched and
\* has now missed 20 frames; the update itself always completes.
C32_TrackerFailureKeepsTrack ==
    \A j \in DOMAIN face_tracker, detections \in DetectionLists,
       kcf \in KcfLists :
       Len(kcf) = Len(face_tracker[j])
       => \A m \in {Matching(face_tracker[j], detections, kcf)} :
          \A new \in {ApplyMatching(
                         UpdateWithTrackers(face_tracker[j], kcf),
                         detections, m, FaceTrack_next_id).tracks} :
             C32_Update(face_tracker[j], detections, kcf, m, new)

\* the visual tracker of the only track has failed in a frame without
\* detections: the track is still there, with its box, one missed frame on
C32_Witness ==
    /\ tracker_updates >= 1
    /\ 1 \in DOMAIN face_tracker
    /\ face_tracker[1]
          = <<[FaceTrack(0, Box(24, 24, 2, 2))
                  EXCEPT !.frames_since_detection = 1]>>

\* ---- the cooldown functions of utils/queue_manager.py on their own ----

\* the bot with nobody served yet
InitCooldown ==
    /\ InitCommon
    /\ active_tasks = <<>>
    /\ processing_queue = <<>>
    /\ user_modes = [u \in Users |-> "face"]
    /\ pending_voice = {}
    /\ tasks = [t \in Tids |-> Idle]
    /\ temp_dirs = <<>>
    /\ users_seen = NumUsers

\* what a call of the cooldown functions leaves alone
CooldownFrame ==
    UNCHANGED <<active_tasks, processing_queue, user_modes, pending_voice,
                now, tasks, temp_dirs, submits, users_seen, delivered,
                tracking>>

SetCooldown(u) ==
    /\ user_cooldowns' = set_cooldown(user_cooldowns, u, now)
    /\ CooldownFrame

IsOnCooldown(u) ==
    /\ user_cooldowns' = is_on_cooldown_map(user_cooldowns, u, now)
    /\ CooldownFrame

GetCooldownRemaining(u) ==
    /\ user_cooldowns' = get_cooldown_remaining_map(user_cooldowns, u, now)
    /\ CooldownFrame

ClearCooldown(u) ==
    /\ user_cooldowns' = clear_cooldown(user_cooldowns, u)
    /\ CooldownFrame

\* the functions of the manager, called in any order while time passes
NextCooldown ==
    \/ \E u \in Users : SetCooldown(u)
    \/ \E u \in Users : IsOnCooldown(u)
    \/ \E u \in Users : GetCooldownRemaining(u)
    \/ \E u \in Users : ClearCooldown(u)
    \/ \E u \in Users : AddToQueue(u, 4, "photo", FALSE)
    \/ \E u \in Users : RemoveFromQueue(u)
    \/ Tick

SpecCooldown == InitCooldown /\ [][NextCooldown]_vars

\* the entry of u has run out
Expired(cd, u, t) == u \in DOMAIN cd /\ t >= cd[u]

\* the map after keeps every entry of the map before
KeepsEntries(before, after) ==
    \A v \in DOMAIN before : v \in DOMAIN after /\ after[v] = before[v]

\* C33 as stated: is_on_cooldown removes the asked user's entry when it has
\* expired, and every other function of the manager leaves the entries
\* that exist in place.
C33_OnlyIsOnCooldownRemoves ==
    \A u \in Users :
       /\ KeepsEntries(DictDel(user_cooldowns, u),
                       is_on_cooldown_map(user_cooldowns, u, now))
       /\ KeepsEntries(user_cooldowns,
                       get_cooldown_remaining_map(user_cooldowns, u, now))
       /\ KeepsEntries(user_cooldowns, clear_cooldown(user_cooldowns, u))
       /\ KeepsEntries(DictDel(user_cooldowns, u),
                       set_cooldown(user_cooldowns, u, now))

\* what one call about user u does to the map
C33_Calls(cd, u, t) ==
    \* the two reads drop the entry of u exactly when it has expired
    /\ \A after \in {is_on_cooldown_map(cd, u, t),
                     get_cooldown_remaining_map(cd, u, t)} :
          /\ KeepsEntries(DictDel(cd, u), after)
          /\ DOMAIN after \subseteq DOMAIN cd
          /\ u \in DOMAIN cd
             => IF Expired(cd, u, t) THEN u \notin DOMAIN after
                ELSE u \in DOMAIN after /\ after[u] = cd[u]
    /\ get_cooldown_remaining(cd, u, t) > 0 <=> is_on_cooldown(cd, u, t)
    \* clear_cooldown drops the entry of u, expired or not
    /\ KeepsEntries(DictDel(cd, u), clear_cooldown(cd, u))
    /\ DOMAIN clear_cooldown(cd, u) = DOMAIN cd \ {u}
    \* set_cooldown writes the entry of u
    /\ KeepsEntries(DictDel(cd, u), set_cooldown(cd, u, t))
    /\ DOMAIN set_cooldown(cd, u, t) = DOMAIN cd \cup {u}

\* C33, amended: an entry leaves the cooldown map only for the user a call
\* is about: is_on_cooldown and get_cooldown_remaining both drop that
\* user's entry when, and only when, it has expired, clear_cooldown drops
\* it expired or not; set_cooldown, add_to_queue, remove_from_queue and
\* the passing of time remove nothing, and no call touches the entry of
\* another user.
C33_LazyRemovalByReadsAndClear ==
    /\ [](\A u \in Users : C33_Calls(user_cooldowns, u, now))
    /\ [][/\ (\E u \in Users : AddToQueue(u, 4, "photo", FALSE))
             => user_cooldowns' = user_cooldowns
          /\ (\E u \in Users : RemoveFromQueue(u))
             => user_cooldowns' = user_cooldowns
          /\ now' # now => user_cooldowns' = user_cooldowns
          /\ Cardinality(DOMAIN user_cooldowns \ DOMAIN user_cooldowns') <= 1
         ]_vars

\* time has passed the expiry of two cooldowns; the entry of user 1 has been
\* read away, the expired entry of user 2 is still in the map
C33_Witness ==
    /\ now >= COOLDOWN_SECONDS
    /\ 1 \notin DOMAIN user_cooldowns
    /\ Expired(user_cooldowns, 2, now)
    /\ get_cooldown_remaining_map(user_cooldowns, 2, now)
          = DictDel(user_cooldowns, 2)

\* ---- queue updates around a promotion (queue_manager.py:211-275) ----

\* the coroutine t of a promotion leaves notify_next_in_queue's turn
\* notification: the head it read is out of the queue after this step
PromotionDone(t) ==
    /\ tasks[t].kind = "trigger"
    /\ tasks[t].pc = "t_turn"
    /\ tasks'[t].pc # "t_turn"

\* C34: when a promotion has taken its head out of the queue, every user
\* still in the queue has been sent, in that promotion, a position update
\* that is the user's 1-indexed rank in the queue as it now is.
C34_UpdateShowsRankAfterPromotion ==
    [][\A t \in Tids :
          PromotionDone(t)
          => \A r \in 1..Len(processing_queue') :
                /\ processing_queue'[r].user_id \in DOMAIN tasks[t].told
                /\ tasks[t].told[processing_queue'[r].user_id] = r]_vars

\* ---- the regions handed to the renderer (utils/tracking.py:79-84) ----

\* widths and heights on both sides of the steps of floor(3 * w / 10)
BlurSides == {0, 1, 3, 4, 7, 10, 13}

\* the boxes a track may hold when its region is asked for
BlurBoxes == {Box(x, x, w, h) : x \in {0, 5}, w \in BlurSides, h \in BlurSides}

\* a FaceTracker holding one track, of any of the boxes
InitBlur ==
    /\ active_tasks = <<>>
    /\ processing_queue = <<>>
    /\ user_cooldowns = <<>>
    /\ user_modes = [u \in Users |-> "face"]
    /\ pending_voice = {}
    /\ now = 0
    /\ tasks = [t \in Tids |-> Idle]
    /\ temp_dirs = <<>>
    /\ submits = 0
    /\ users_seen = 0
    /\ delivered = [u \in Users |-> 0]
    /\ tracker_updates = 0
    /\ \E bbox \in BlurBoxes :
          /\ face_tracker = [j \in {1} |-> <<FaceTrack(0, bbox)>>]
          /\ FaceTrack_next_id = 1

\* blur_faces_in_video, one frame with one detection while one track is
\* held: face_tracker.update, then get_blur_regions on the tracks it leaves
BlurUpdate(det) ==
    /\ 1 \in DOMAIN face_tracker
    /\ Len(face_tracker[1]) = 1
    /\ TrackerUpdate(1, <<det>>, <<<<>>>>)

NextBlur == \E det \in BlurBoxes : BlurUpdate(det)

SpecBlur == InitBlur /\ [][NextBlur]_vars

\* region is bbox grown by floor(3 * w / 10) and floor(3 * h / 10) pixels on
\* each side
C35_Region(bbox, region) ==
    \E ew \in 0..bbox[3], eh \in 0..bbox[4] :
       /\ 10 * ew <= 3 * bbox[3] /\ 3 * bbox[3] < 10 * (ew + 1)
       /\ 10 * eh <= 3 * bbox[4] /\ 3 * bbox[4] < 10 * (eh + 1)
       /\ region = Box(bbox[1] - ew, bbox[2] - eh,
                       bbox[3] + 2 * ew, bbox[4] + 2 * eh)
       \* the region contains the box
       /\ region[1] <= bbox[1] /\ region[1] + region[3] >= bbox[1] + bbox[3]
       /\ region[2] <= bbox[2] /\ region[2] + region[4] >= bbox[2] + bbox[4]
       \* and has the centre of the box
       /\ 2 * region[1] + region[3] = 2 * bbox[1] + bbox[3]
       /\ 2 * region[2] + region[4] = 2 * bbox[2] + bbox[4]

\* C35: for every track, of box (x, y, w, h) with w, h >= 0, the region
\* get_blur_regions hands to the renderer is
\* (x - ew, y - eh, w + 2 * ew, h + 2 * eh) with ew = floor(3 * w / 10) and
\* eh = floor(3 * h / 10): it contains the box of the track and has the
\* same centre.
C35_BlurRegionExpansion ==
    \A j \in DOMAIN face_tracker :
       /\ Len(get_blur_regions(face_tracker[j])) = Len(face_tracker[j])
       /\ \A i \in 1..Len(face_tracker[j]) :
             C35_Region(face_tracker[j][i].bbox,
                        get_blur_regions(face_tracker[j])[i])

\* an update has left a track of 13 by 7 pixels at (5, 5): its region is 19
\* by 11 pixels at (2, 3)
C35_Witness ==
    /\ tracker_updates >= 1
    /\ 1 \in DOMAIN face_tracker
    /\ \E i \in 1..Len(face_tracker[1]) :
          /\ face_tracker[1][i].bbox = Box(5, 5, 13, 7)
          /\ get_blur_regions(face_tracker[1])[i] = Box(2, 3, 19, 11)

\* ---- how a video job ends (video.py:192-258, face_blur.py:116-270) ----

\* what the user has been sent about the job when process_face_blur ends
\* with the given outcome: the result document, the abort message, a
\* failure message.  "delivered_error": the result went out, the warning
\* after it raised, and the except branch sent "An error occurred".
ReportsOf(res) ==
    CASE res = "delivered" -> {"result"}
      [] res = "delivered_error" -> {"result", "failed"}
      [] res = "aborted" -> {"aborted"}
      [] OTHER -> {"failed"}

\* C36: when a video job ends, the pipeline has not returned
\* (success, was_cancelled) = (True, True), and the user has been sent
\* exactly one of: the result, the abort message, a failure message.
C36_OneOutcomePerJob ==
    [][\A t \in Tids, sent \in {"all", "result", "none"} :
          VideoFinish(t, sent)
          => /\ ~(tasks[t].success /\ tasks[t].was_cancelled)
             /\ Cardinality(ReportsOf(VideoOutcome(tasks[t], temp_dirs[t],
                                                   sent))) = 1]_vars

\* ---- promotions that race (queue_manager.py:243-275) ----

\* the coroutine t of a promotion has read the head of the queue and has
\* its "It's your turn" message to that user in flight
TurnInFlight(ts, t) == ts[t].kind = "trigger" /\ ts[t].pc = "t_turn"

\* C37: a queue entry is promoted at most once: no two promotions have a
\* turn notification to the same user in flight, and no user has two jobs
\* started from the queue.
C37_PromotedAtMostOnce ==
    \A t1 \in Tids, t2 \in Tids :
       t1 # t2
       => /\ (TurnInFlight(tasks, t1) /\ TurnInFlight(tasks, t2))
             => tasks[t1].entry.user_id # tasks[t2].entry.user_id
          /\ (tasks[t1].queued /\ tasks[t2].queued)
             => tasks[t1].user # tasks[t2].user

\* ---- users left waiting (queue_worker.py:12-48, video.py:250-258) ----

\* no job is registered and no handler, pipeline or promotion is running
Quiescent ==
    /\ active_tasks = <<>>
    /\ \A t \in Tids : tasks[t].kind = "idle"

\* C38: whenever no job is active and no handler or promotion is in
\* progress, the wait queue is empty.
C38_NoUserStranded == Quiescent => processing_queue = <<>>

\* ---- one job per user (photo.py:91-151, 236-284, video.py:88-94) ----

\* user 1 has an image job running and has sent a second image, as a
\* document: handle_document, which does not look at active_tasks, has found
\* the server not busy and is sending its "processing" message.  The second
\* coroutine of user 1 runs in the free slot 2.
InitResubmit ==
    /\ InitCommon
    /\ active_tasks = [u \in {1} |-> PhotoRecord]
    /\ processing_queue = <<>>
    /\ user_modes = [u \in Users |-> "face"]
    /\ pending_voice = {}
    /\ tasks = [t \in Tids |->
                  IF t = 1 THEN RunningPhoto(1)
                  ELSE IF t = 2
                  THEN [Idle EXCEPT !.kind = "document", !.user = 1,
                                    !.pc = "proc_msg"]
                  ELSE Idle]
    /\ temp_dirs = [t \in {1} |-> {}]
    /\ users_seen = 2

\* the image handlers, their jobs and the promotion each job end starts
NextResubmit ==
    \/ \E u \in Users, size \in ImageSizes, dim_ok \in BOOLEAN :
          HandlePhoto(u, size, dim_ok)
    \/ \E u \in Users, size \in ImageSizes,
          ftype \in {"document_photo", "document_video", "unknown"} :
          HandleDocument(u, size, ftype)
    \/ \E t \in Tids, sent \in BOOLEAN : ImageRegister(t, sent)
    \/ \E t \in Tids, outcome \in {"ok", "fail", "exc"} :
          ImageFinish(t, outcome)
    \/ \E t \in Tids : NotifyNextInQueue(t)

SpecResubmit == InitResubmit /\ [][NextResubmit]_vars

\* the coroutines that are between the registration of their job and its
\* finally block
RunningJobs(ts) == {t \in Tids : Registered(ts[t])}

\* C39: no two jobs run for the same user, and the active set has one
\* entry for every job that is running: a record is never overwritten by a
\* second job of its user and never removed by the cleanup of another job.
C39_OneJobPerUser ==
    /\ \A t1 \in RunningJobs(tasks), t2 \in RunningJobs(tasks) :
          t1 # t2 => tasks[t1].user # tasks[t2].user
    /\ Cardinality(DOMAIN active_tasks) = Cardinality(RunningJobs(tasks))

\* ---- /stop while a video-face job runs (face_blur.py:174-270,
\* video.py:189-238, commands.py:139-158) ----

\* the steps of a video-face job in which the flag can be looked at before
\* the handler goes on: the end of the download, the frame loop, the
\* transcode step
CancelPoints == {"download", "poll", "read", "frame", "transcode"}

\* this step is the one in which the pipeline of job t hands over to the
\* handler without having raised
PipelineEnds(t) ==
    /\ tasks[t].kind = "video"
    /\ tasks[t].pc \in CancelPoints
    /\ tasks'[t].pc = "returned"
    /\ ~tasks'[t].raised

\* C40: a video-face job whose cancel_event is set when its download, its
\* frame loop or its transcode step ends, ends cancelled; a cancelled job
\* delivers no result and sets no cooldown.
C40_CancelBeforeResultAborts ==
    [][\A t \in Tids :
          /\ (PipelineEnds(t) /\ tasks[t].cancel_event)
             => tasks'[t].was_cancelled
          /\ \A sent \in {"all", "result", "none"} :
                (VideoFinish(t, sent) /\ tasks[t].kind = "video"
                   /\ tasks[t].was_cancelled)
                => /\ delivered' = delivered
                   /\ user_cooldowns' = user_cooldowns
                   /\ VideoOutcome(tasks[t], temp_dirs[t], sent) = "aborted"]_vars

====
